---- MODULE Spec2Model ----
(***************************************************************************)
(* The resort state engine of the data-generator service: DataGenerator    *)
(* (generator.py), its pydantic models (models.py) and the asyncio loop    *)
(* and request handlers that drive and read it (main.py).                  *)
(*                                                                         *)
(* Numbers.  The code's floats are modelled as scaled integers:            *)
(*   temperature        degrees C                                          *)
(*   wind_speed         km/h                                               *)
(*   snow_intensity     tenths of cm/h      (2.5 cm/h  is 25)              *)
(*   visibility         metres                                             *)
(*   avalanche_risk     hundredths          (0.8       is 80)              *)
(*   snow_depth_cm      tenths of cm        (85.0 cm   is 850)             *)
(*   wait_time_minutes  tenths of a minute  (2.0 min   is 20)              *)
(* A random.uniform(-d, d) draw is one of -d, 0, d; random.randint(-d, d)  *)
(* likewise; random.random() < p is a boolean draw (0 < p < 1).            *)
(* datetime.now() is a logical clock that every reading advances by one.   *)
(***************************************************************************)
EXTENDS Integers, Sequences, FiniteSets, TLC

VARIABLES
    generator,         \* main.generator: "None" or "DataGenerator"
    pc,                \* position of the data_update_loop task
    current_time,      \* DataGenerator.current_time
    weather,           \* DataGenerator.weather      (one WeatherData object)
    lifts,             \* DataGenerator.lifts        (list of LiftData objects)
    slopes,            \* DataGenerator.slopes       (list of SlopeData objects)
    safety,            \* DataGenerator.safety       (one SafetyData object)
    incident_history,  \* DataGenerator._incident_history
    reports_list,      \* which list object safety.incident_reports is bound to
    response,          \* the last answer a request handler gave
    held,              \* the ResortState last returned by get_state()
    drawn,             \* history variable: the draws the last slope step consumed
    last_tick,         \* history variable: the engine state at the last tick boundary
    agent              \* the safety agent's is_slope_safe call: position and locals

vars == <<generator, pc, current_time, weather, lifts, slopes, safety,
          incident_history, reports_list, response, held, drawn, last_tick,
          agent>>

None == "None"

----------------------------------------------------------------------------
(* Bounds of the model.                                                    *)

\* Ticks explored by the specifications that vary the draws of one domain.
MaxTime == 5
\* Ticks explored by the incident-history specification (past the capacity).
MaxHistoryTime == 22
\* In the incident-history specification a tick may pass without an incident
\* only up to this time; later ticks always generate one.
QuietTicks == 2
\* Ticks explored by the specifications of the service (loop and handlers).
MaxServiceTime == 3
\* Ticks explored by the specifications that vary several domains at once.
MaxOrderTime == 3

----------------------------------------------------------------------------
(* Plain helpers.                                                          *)

Max(a, b) == IF a >= b THEN a ELSE b
Min(a, b) == IF a <= b THEN a ELSE b

\* round(num / den, 0) for num >= 0, den > 0: to nearest, ties to even, which is
\* what Python's round() does on the exact decimal value.
RoundDiv(num, den) ==
    LET q == num \div den
        r == num % den
    IN  IF 2 * r < den THEN q
        ELSE IF 2 * r > den THEN q + 1
        ELSE IF q % 2 = 0 THEN q ELSE q + 1

\* s[-n:] of a Python list
LastN(s, n) ==
    IF Len(s) <= n THEN s ELSE SubSeq(s, Len(s) - n + 1, Len(s))

----------------------------------------------------------------------------
(* Program constants and configuration.                                    *)

\* self._incident_history[-20:]
HistoryCap == 20

\* config.json as _load_config returns it. The file is not part of the source
\* tree at hand; the magnitudes are chosen so that every clamp bound and every
\* threshold of the update rules is reached within MaxTime ticks. Units as above
\* (depth_drift in hundredths of cm). The probability entries are strictly
\* between 0 and 1, so each random.random() < p test can go either way.
config ==
    [ weather |-> [ temperature_drift |-> 5, wind_speed_drift |-> 20,
                    snow_intensity_drift |-> 10, visibility_drift |-> 5000 ],
      lifts   |-> [ queue_drift |-> 100 ],
      safety  |-> [ risk_drift |-> 20 ],
      slopes  |-> [ depth_drift |-> 4000 ] ]

\* lift_configs of _create_initial_lifts: (lift_id, name, throughput, status)
lift_configs ==
    << [lift_id |-> "gondola-1",       name |-> "Summit Gondola",    throughput |-> 2400, status |-> "open"],
       [lift_id |-> "chairlift-alpha", name |-> "Alpine Express",    throughput |-> 1800, status |-> "open"],
       [lift_id |-> "chairlift-bravo", name |-> "Eagle Chair",       throughput |-> 1600, status |-> "open"],
       [lift_id |-> "t-bar-1",         name |-> "Beginner T-Bar",    throughput |-> 800,  status |-> "open"],
       [lift_id |-> "magic-carpet-1",  name |-> "Kids Magic Carpet", throughput |-> 400,  status |-> "open"] >>

\* slope_configs of _create_initial_slopes:
\* (slope_id, name, difficulty, is_open, groomed, base_depth in cm)
slope_configs ==
    << [slope_id |-> "valley-run",      name |-> "Valley Run",      difficulty |-> "green", is_open |-> TRUE, groomed |-> TRUE,  base_depth |-> 85],
       [slope_id |-> "sunrise-trail",   name |-> "Sunrise Trail",   difficulty |-> "green", is_open |-> TRUE, groomed |-> TRUE,  base_depth |-> 90],
       [slope_id |-> "alpine-meadow",   name |-> "Alpine Meadow",   difficulty |-> "blue",  is_open |-> TRUE, groomed |-> TRUE,  base_depth |-> 105],
       [slope_id |-> "eagle-ridge",     name |-> "Eagle Ridge",     difficulty |-> "blue",  is_open |-> TRUE, groomed |-> FALSE, base_depth |-> 95],
       [slope_id |-> "timber-bowl",     name |-> "Timber Bowl",     difficulty |-> "blue",  is_open |-> TRUE, groomed |-> FALSE, base_depth |-> 110],
       [slope_id |-> "north-face",      name |-> "North Face",      difficulty |-> "red",   is_open |-> TRUE, groomed |-> FALSE, base_depth |-> 120],
       [slope_id |-> "summit-chute",    name |-> "Summit Chute",    difficulty |-> "black", is_open |-> TRUE, groomed |-> FALSE, base_depth |-> 130],
       [slope_id |-> "avalanche-alley", name |-> "Avalanche Alley", difficulty |-> "black", is_open |-> TRUE, groomed |-> FALSE, base_depth |-> 125] >>

----------------------------------------------------------------------------
(* Draw profiles.  A specification explores the draws its profile allows:  *)
(* the random values of construction (init_ fields), unit draws of each    *)
(* random walk (-1, 0, 1 times the configured drift), the boolean draws,   *)
(* and the entities whose draws vary (the others always draw the neutral   *)
(* value: no drift, no status change, no reopen, no groom, no ungroom).    *)
(* Every lift and every slope is updated by every tick whatever the        *)
(* profile; a profile only narrows the random inputs.  track says whether  *)
(* the history variable last_tick is recorded.                             *)

Frozen ==
    [ max_time |-> MaxTime, track |-> FALSE,
      init_temp |-> {-10}, init_wind |-> {5}, init_snow |-> {0},
      init_vis |-> {10000}, init_risk |-> {10}, init_queue |-> {10},
      init_variance |-> {0},
      temp |-> {0}, wind |-> {0}, snow |-> {0}, vis |-> {0}, risk |-> {0},
      lifts |-> {}, queue |-> {0}, status_change |-> {FALSE},
      incident |-> {FALSE},
      types |-> {"minor_injury"}, severities |-> {"low", "high"},
      locations |-> {"Valley Run"},
      slopes |-> {}, depth |-> {0}, reopen |-> {FALSE},
      groom |-> {FALSE}, ungroom |-> {FALSE} ]

----------------------------------------------------------------------------
(* models.py and DataGenerator.__init__                                    *)

WeatherData(temperature, wind_speed, snow_intensity, visibility, timestamp) ==
    [ temperature |-> temperature, wind_speed |-> wind_speed,
      snow_intensity |-> snow_intensity, visibility |-> visibility,
      timestamp |-> timestamp ]

\* IncidentReport
IncidentReport(incident_type, location, severity, timestamp) ==
    [ incident_type |-> incident_type, location |-> location,
      severity |-> severity, timestamp |-> timestamp ]

SafetyData(avalanche_risk_index, incident_reports, timestamp) ==
    [ avalanche_risk_index |-> avalanche_risk_index,
      incident_reports |-> incident_reports, timestamp |-> timestamp ]

\* wait_time_minutes in tenths: round((queue / throughput) * 60, 1)
RoundedWait(queue_length, throughput_rate) ==
    RoundDiv(queue_length * 600, throughput_rate)

\* One LiftData of _create_initial_lifts. The model declares no serves_slopes
\* field, so pydantic drops that keyword.
InitialLift(c, queue, now) ==
    [ lift_id |-> c.lift_id, name |-> c.name, status |-> c.status,
      queue_length |-> queue,
      wait_time_minutes |-> IF c.throughput > 0 THEN RoundedWait(queue, c.throughput) ELSE 0,
      throughput_rate |-> c.throughput, timestamp |-> now ]

\* One SlopeData of _create_initial_slopes: round(base_depth + depth_variance, 1).
\* SlopeData declares no timestamp and no served_by_lift_id.
InitialSlope(c, variance) ==
    [ slope_id |-> c.slope_id, name |-> c.name, difficulty |-> c.difficulty,
      is_open |-> c.is_open, groomed |-> c.groomed,
      snow_depth_cm |-> c.base_depth * 10 + variance ]

\* Mutant of uniform: the draw is not confined to [a, b].
uniform_unbounded(draws, a, b) == draws

\* random.uniform(a, b) and random.randint(a, b): of the draws a profile allows,
\* those the call can return.
uniform(draws, a, b) == { x \in draws : a <= x /\ x <= b }

\* The lists _create_initial_lifts can return: one queue draw per lift.
RECURSIVE InitialLifts(_, _, _)
InitialLifts(P, n, now) ==
    IF n = 0 THEN { <<>> }
    ELSE { Append(s, InitialLift(lift_configs[n], q, now)) :
             s \in InitialLifts(P, n - 1, now),
             q \in uniform(IF n \in P.lifts THEN P.init_queue ELSE {10}, 10, 80) }

\* The lists _create_initial_slopes can return: one depth_variance draw per slope.
RECURSIVE InitialSlopes(_, _)
InitialSlopes(P, n) ==
    IF n = 0 THEN { <<>> }
    ELSE { Append(s, InitialSlope(slope_configs[n], v)) :
             s \in InitialSlopes(P, n - 1),
             v \in uniform(IF n \in P.slopes THEN P.init_variance ELSE {0}, -100, 100) }

\* The engine's fields as one value (what a tick boundary leaves).
EngineState ==
    [ current_time |-> current_time, weather |-> weather, lifts |-> lifts,
      slopes |-> slopes, safety |-> safety, incident_history |-> incident_history ]

\* The value of a field that holds no object yet.
Absent == [ absent |-> TRUE ]

NoResponse ==
    [ kind |-> None, arg |-> None, status |-> 0, body |-> Absent,
      boundary |-> Absent, at |-> None ]

\* held before any get_state() call. previous is what the call before the last
\* returned when no update() was called between the two (at is the tick time
\* of the last call), Absent otherwise.
NotHeld ==
    [ taken |-> FALSE, state |-> Absent, returned |-> Absent,
      previous |-> Absent, at |-> 0 ]

\* agent before any is_slope_safe call. fetched is a history field: the slope
\* list the last completed call had fetched.
NotCalled ==
    [ pc |-> "idle", slope_id |-> None, weather |-> Absent, safety |-> Absent,
      fetched |-> <<>>, result |-> Absent ]

\* Mutant of separate_list: the attribute is bound to the history list itself.
history_list == "_incident_history"

\* The list object safety.incident_reports is bound to: SafetyData(
\* incident_reports=[]) in __init__ and self._incident_history.copy() in
\* _update_safety both make a list object of its own.
separate_list == "a list of its own"

\* Before lifespan() runs: no generator, no task. The engine variables hold
\* placeholders until Startup sets them.
Init ==
    /\ generator = None
    /\ pc = "none"
    /\ current_time = 0
    /\ weather = Absent
    /\ lifts = <<>>
    /\ slopes = <<>>
    /\ safety = Absent
    /\ incident_history = <<>>
    /\ reports_list = None
    /\ response = NoResponse
    /\ held = NotHeld
    /\ drawn = [ reopen |-> <<>>, groom |-> <<>>, ungroom |-> <<>> ]
    /\ last_tick = Absent
    /\ agent = NotCalled

\* lifespan() startup: generator = DataGenerator(); create_task(data_update_loop()).
Startup(P) ==
    /\ generator = None
    /\ generator' = "DataGenerator"
    /\ current_time' = 0
    /\ lifts' \in InitialLifts(P, Len(lift_configs), 0)
    /\ slopes' \in InitialSlopes(P, Len(slope_configs))
    /\ \E t \in uniform(P.init_temp, -10, 0), w \in uniform(P.init_wind, 5, 25),
          s \in uniform(P.init_snow, 0, 20), v \in uniform(P.init_vis, 5000, 10000) :
          weather' = WeatherData(t, w, s, v, 0)
    /\ \E r \in uniform(P.init_risk, 10, 40) : safety' = SafetyData(r, <<>>, 0)
    /\ incident_history' = <<>>
    /\ pc' = "created"
    /\ last_tick' = IF P.track
                    THEN [ current_time |-> current_time', weather |-> weather',
                           lifts |-> lifts', slopes |-> slopes', safety |-> safety',
                           incident_history |-> incident_history' ]
                    ELSE Absent
    /\ reports_list' = separate_list
    /\ UNCHANGED <<agent, response, held, drawn>>

----------------------------------------------------------------------------
(* DataGenerator.update and its four steps                                 *)

\* Mutant of LoopResumes: a failed tick ends the loop (no except branch that
\* sleeps and lets the while loop go round again).
LoopResumesUnlessFailed == pc \in {"created", "sleeping"}

\* Mutant of LoopResumes: update() is also called while a call is running (a
\* second caller).
LoopResumesDuringUpdate ==
    pc \in {"created", "sleeping", "backoff", "weather", "lifts", "safety", "slopes"}

\* data_update_loop: the task calls generator.update() when it first runs, when
\* asyncio.sleep(interval) returns, and when the asyncio.sleep(2) of the except
\* branch returns.
LoopResumes == pc \in {"created", "sleeping", "backoff"}

\* The loop's call of update() and update()'s first statement:
\* self.current_time = datetime.now()
BeginUpdate(P) ==
    /\ LoopResumes
    /\ current_time < P.max_time
    /\ current_time' = current_time + 1
    /\ pc' = "weather"
    /\ UNCHANGED <<agent, generator, weather, lifts, slopes, safety, incident_history,
                   response, held, drawn, last_tick,
                   reports_list>>

\* Mutant of vis_delta: the wind penalty is an elif of the snow penalty.
vis_delta_one_penalty(drift, snow_intensity, wind_speed) ==
    LET d == config.weather.visibility_drift
    IN  drift
          - (IF snow_intensity > 20 THEN d * 2
             ELSE IF wind_speed > 40 THEN (d * 15) \div 10 ELSE 0)

\* Mutant of vis_delta_of: the wind penalty is d * 0.5.
vis_delta_of_weak_wind(d, drift, snow_intensity, wind_speed) ==
    drift
      - (IF snow_intensity > 20 THEN d * 2 ELSE 0)
      - (IF wind_speed > 40 THEN (d * 5) \div 10 ELSE 0)

\* Lines 155-160 for a drift magnitude d = cfg["visibility_drift"] and a draw
\* drift of uniform(-d, d): the drift, minus d * 2 when this tick's
\* snow_intensity > 2, minus d * 1.5 when this tick's wind_speed > 40.
vis_delta_of(d, drift, snow_intensity, wind_speed) ==
    drift
      - (IF snow_intensity > 20 THEN d * 2 ELSE 0)
      - (IF wind_speed > 40 THEN (d * 15) \div 10 ELSE 0)

\* The visibility change before clamping, for the configured magnitude.
vis_delta(drift, snow_intensity, wind_speed) ==
    vis_delta_of(config.weather.visibility_drift, drift, snow_intensity, wind_speed)

\* Mutant of update_weather: the snowfall drift is applied twice.
update_weather_double_snow(w, tu, wu, su, vu, now) ==
    LET new_temp == w.temperature + tu * config.weather.temperature_drift
        temperature == Max(-15, Min(5, new_temp))
        new_wind == w.wind_speed + wu * config.weather.wind_speed_drift
        wind_speed == Max(0, Min(80, new_wind))
        new_snow == w.snow_intensity + 2 * su * config.weather.snow_intensity_drift
        snow_intensity == Max(0, Min(50, new_snow))
        new_vis == w.visibility
                     + vis_delta(vu * config.weather.visibility_drift,
                                 snow_intensity, wind_speed)
        visibility == Max(50, Min(10000, new_vis))
    IN  WeatherData(temperature, wind_speed, snow_intensity, visibility, now)

\* Mutant of update_weather: the wind and visibility walks are not clamped.
update_weather_unclamped(w, tu, wu, su, vu, now) ==
    LET new_temp == w.temperature + tu * config.weather.temperature_drift
        temperature == Max(-15, Min(5, new_temp))
        wind_speed == w.wind_speed + wu * config.weather.wind_speed_drift
        new_snow == w.snow_intensity + su * config.weather.snow_intensity_drift
        snow_intensity == Max(0, Min(50, new_snow))
        visibility == w.visibility
                        + vis_delta(vu * config.weather.visibility_drift,
                                    snow_intensity, wind_speed)
    IN  WeatherData(temperature, wind_speed, snow_intensity, visibility, now)

\* _update_weather with its four draws tu, wu, su, vu in {-1, 0, 1}
update_weather(w, tu, wu, su, vu, now) ==
    LET new_temp == w.temperature + tu * config.weather.temperature_drift
        temperature == Max(-15, Min(5, new_temp))
        new_wind == w.wind_speed + wu * config.weather.wind_speed_drift
        wind_speed == Max(0, Min(80, new_wind))
        new_snow == w.snow_intensity + su * config.weather.snow_intensity_drift
        snow_intensity == Max(0, Min(50, new_snow))
        new_vis == w.visibility
                     + vis_delta(vu * config.weather.visibility_drift,
                                 snow_intensity, wind_speed)
        visibility == Max(50, Min(10000, new_vis))
    IN  WeatherData(temperature, wind_speed, snow_intensity, visibility, now)

UpdateWeather(P) ==
    /\ pc = "weather"
    /\ \E tu \in P.temp, wu \in P.wind, su \in P.snow, vu \in P.vis :
          weather' = update_weather(weather, tu, wu, su, vu, current_time)
    /\ pc' = "lifts"
    /\ UNCHANGED <<agent, generator, current_time, lifts, slopes, safety,
                   incident_history, response, held, drawn, last_tick,
                   reports_list>>

\* The wait time _update_lifts assigns at the end of a lift's turn.
wait_time(status, queue_length, throughput_rate) ==
    IF status = "open" /\ throughput_rate > 0
    THEN RoundedWait(queue_length, throughput_rate)
    ELSE 0

\* Mutant of next_status: a change always takes the random choice.
next_status_rechosen(status, change, choice) ==
    IF change THEN choice ELSE status

\* The status after the random.random() < status_change_probability test.
next_status(status, change, choice) ==
    IF change
    THEN IF status = "open" THEN choice ELSE "open"
    ELSE status

\* Mutant of update_lift: the wait time is recomputed only for an open lift,
\* and from the queue length the turn started with.
update_lift_stale(lift, qu, change, choice, now) ==
    LET new_queue == lift.queue_length + qu * config.lifts.queue_drift
        queue_length == Max(0, Min(200, new_queue))
        status == next_status(lift.status, change, choice)
    IN  [ lift EXCEPT !.queue_length = queue_length,
                      !.status = status,
                      !.wait_time_minutes =
                          IF status = "open"
                          THEN wait_time(status, lift.queue_length, lift.throughput_rate)
                          ELSE lift.wait_time_minutes,
                      !.timestamp = now ]

\* Mutant of update_lift: a lift that is not open loses its throughput.
update_lift_zeroes_throughput(lift, qu, change, choice, now) ==
    LET new_queue == lift.queue_length + qu * config.lifts.queue_drift
        queue_length == Max(0, Min(200, new_queue))
        status == next_status(lift.status, change, choice)
    IN  [ lift EXCEPT !.queue_length = queue_length,
                      !.status = status,
                      !.wait_time_minutes = wait_time(status, queue_length, lift.throughput_rate),
                      !.throughput_rate = IF status = "open" THEN @ ELSE 0,
                      !.timestamp = now ]

\* One turn of the loop of _update_lifts: queue draw qu in {-1, 0, 1}, the
\* status-change draw, and random.choice(["closed", "maintenance"]).
update_lift(lift, qu, change, choice, now) ==
    LET new_queue == lift.queue_length + qu * config.lifts.queue_drift
        queue_length == Max(0, Min(200, new_queue))
        status == next_status(lift.status, change, choice)
    IN  [ lift EXCEPT !.queue_length = queue_length,
                      !.status = status,
                      !.wait_time_minutes = wait_time(status, queue_length, lift.throughput_rate),
                      !.timestamp = now ]

\* The draws of one lift's turn under a profile.
LiftDraws(P, i) ==
    IF i \in P.lifts
    THEN P.queue \X P.status_change \X {"closed", "maintenance"}
    ELSE { <<0, FALSE, "closed">> }

\* The lists _update_lifts can leave: every lift takes its turn, in order.
RECURSIVE updated_lifts(_, _, _, _)
updated_lifts(P, ls, n, now) ==
    IF n = 0 THEN { <<>> }
    ELSE { Append(s, update_lift(ls[n], d[1], d[2], d[3], now)) :
             s \in updated_lifts(P, ls, n - 1, now), d \in LiftDraws(P, n) }

UpdateLifts(P) ==
    /\ pc = "lifts"
    /\ lifts' \in updated_lifts(P, lifts, Len(lifts), current_time)
    /\ pc' = "safety"
    /\ UNCHANGED <<agent, generator, current_time, weather, slopes, safety,
                   incident_history, response, held, drawn, last_tick,
                   reports_list>>

\* Mutant of risk_delta: the snowfall increment is an elif of the wind one.
risk_delta_one_increment(drift, w) ==
    LET d == config.safety.risk_drift
    IN  drift
          + (IF w.wind_speed > 50 THEN (d * 5) \div 10
             ELSE IF w.snow_intensity > 30 THEN (d * 5) \div 10 ELSE 0)

\* Mutant of risk_delta: the weather is not read.
risk_delta_ignores_weather(drift, w) == drift

\* The risk change before clamping: the drift, plus d * 0.5 when this tick's
\* wind_speed > 50, plus d * 0.5 when this tick's snow_intensity > 3.
risk_delta(drift, w) ==
    LET d == config.safety.risk_drift
    IN  drift
          + (IF w.wind_speed > 50 THEN (d * 5) \div 10 ELSE 0)
          + (IF w.snow_intensity > 30 THEN (d * 5) \div 10 ELSE 0)

\* Mutant of updated_risk: the walk is not clamped.
updated_risk_unclamped(risk, ru, w) ==
    risk + risk_delta(ru * config.safety.risk_drift, w)

\* avalanche_risk_index after _update_safety's walk, draw ru in {-1, 0, 1}
updated_risk(risk, ru, w) ==
    LET new_risk == risk + risk_delta(ru * config.safety.risk_drift, w)
    IN  Max(0, Min(100, new_risk))

\* Mutant of incident_types: the warning enters the list at 0.7 already.
incident_types_from_threshold(risk) ==
    <<"minor_injury", "collision", "lost_person", "equipment_failure">>
       \o (IF risk >= 70 THEN <<"avalanche_warning", "avalanche_warning">> ELSE <<>>)

\* _generate_incident: the candidate list random.choice picks the type from
incident_types(risk) ==
    <<"minor_injury", "collision", "lost_person", "equipment_failure">>
       \o (IF risk > 70 THEN <<"avalanche_warning", "avalanche_warning">> ELSE <<>>)

\* Mutant of severity_map: a minor injury may be critical.
severity_map_with_critical_injury ==
    [ minor_injury      |-> <<"low", "medium", "critical">>,
      collision         |-> <<"low", "medium", "high">>,
      lost_person       |-> <<"medium", "high">>,
      equipment_failure |-> <<"low", "medium", "high">>,
      avalanche_warning |-> <<"high", "critical">> ]

\* _generate_incident: severity_map
severity_map ==
    [ minor_injury      |-> <<"low", "medium">>,
      collision         |-> <<"low", "medium", "high">>,
      lost_person       |-> <<"medium", "high">>,
      equipment_failure |-> <<"low", "medium", "high">>,
      avalanche_warning |-> <<"high", "critical">> ]

\* Mutant of locations: slope ids instead of slope names.
locations_by_slope_id(ss, ls) ==
    [ i \in 1..Len(ss) |-> ss[i].slope_id ] \o [ i \in 1..Len(ls) |-> ls[i].name ]

\* _generate_incident: slope names, then lift names
locations(ss, ls) ==
    [ i \in 1..Len(ss) |-> ss[i].name ] \o [ i \in 1..Len(ls) |-> ls[i].name ]

\* The reports _generate_incident can return: three random.choice draws.
generate_incident(P, risk, ss, ls, now) ==
    { IncidentReport(incident_types(risk)[i], locations(ss, ls)[k],
                     severity_map[incident_types(risk)[i]][j], now) :
        <<i, j, k>> \in
          { c \in (DOMAIN incident_types(risk)) \X (1..3) \X (DOMAIN locations(ss, ls)) :
              /\ incident_types(risk)[c[1]] \in P.types
              /\ c[2] \in DOMAIN severity_map[incident_types(risk)[c[1]]]
              /\ severity_map[incident_types(risk)[c[1]]][c[2]] \in P.severities
              /\ locations(ss, ls)[c[3]] \in P.locations } }

\* Mutant of appended: the incident is inserted at the front.
appended_at_front(history, incident) ==
    LastN(<<incident>> \o history, HistoryCap)

\* Mutant of appended: the history is never truncated.
appended_untruncated(history, incident) == Append(history, incident)

\* Mutant of appended: the truncation keeps one entry too few ([-19:]).
appended_off_by_one(history, incident) ==
    LastN(Append(history, incident), HistoryCap - 1)

\* self._incident_history.append(incident); self._incident_history = self._incident_history[-20:]
appended(history, incident) == LastN(Append(history, incident), HistoryCap)

\* _update_safety
UpdateSafety(P) ==
    /\ pc = "safety"
    /\ \E ru \in P.risk, inc \in P.incident :
         LET risk == updated_risk(safety.avalanche_risk_index, ru, weather)
         IN  /\ IF inc
                THEN \E incident \in generate_incident(P, risk, slopes, lifts, current_time) :
                        incident_history' = appended(incident_history, incident)
                ELSE incident_history' = incident_history
             \* incident_reports = self._incident_history.copy(): an equal list
             /\ safety' = SafetyData(risk, incident_history', current_time)
    /\ reports_list' = separate_list
    /\ pc' = "slopes"
    /\ UNCHANGED <<agent, generator, current_time, weather, lifts, slopes,
                   response, held, drawn, last_tick>>

\* Mutant of avalanche_closure: the risk closes red slopes too.
avalanche_closure_red_too(slope, s) ==
    slope.difficulty \in {"black", "red"} /\ s.avalanche_risk_index > 80

\* First closure rule of _update_slopes
avalanche_closure(slope, s) ==
    slope.difficulty = "black" /\ s.avalanche_risk_index > 80

\* Mutant of wind_closure: the wind closes slopes of every difficulty.
wind_closure_any_difficulty(slope, w) == w.wind_speed > 60

\* Second closure rule of _update_slopes
wind_closure(slope, w) ==
    slope.difficulty \in {"black", "red"} /\ w.wind_speed > 60

\* Mutant of after_closures: a slope no rule closes is set open.
after_closures_forcing_open(slope, w, s) ==
    IF avalanche_closure(slope, s) \/ wind_closure(slope, w) THEN FALSE ELSE TRUE

\* is_open after the two forced-closure statements
after_closures(slope, w, s) ==
    IF avalanche_closure(slope, s) \/ wind_closure(slope, w) THEN FALSE ELSE slope.is_open

\* Mutant of after_reopen: the reopen does not re-check the avalanche rule.
after_reopen_ignores_avalanche(slope, is_open, reopen, w, s) ==
    IF ~is_open /\ reopen
    THEN IF ~wind_closure(slope, w) THEN TRUE ELSE is_open
    ELSE is_open

\* Mutant of after_reopen: the reopen does not re-check the wind rule.
after_reopen_ignores_wind(slope, is_open, reopen, w, s) ==
    IF ~is_open /\ reopen
    THEN IF ~avalanche_closure(slope, s) THEN TRUE ELSE is_open
    ELSE is_open

\* is_open after the reopen statement, is_open being the value the closure
\* statements left and reopen the random.random() < reopen_probability draw
after_reopen(slope, is_open, reopen, w, s) ==
    IF ~is_open /\ reopen
    THEN IF ~avalanche_closure(slope, s)
         THEN IF ~wind_closure(slope, w) THEN TRUE ELSE is_open
         ELSE is_open
    ELSE is_open

\* Mutant of after_grooming: slopes of every difficulty are groomed.
after_grooming_any_difficulty(slope, groom, ungroom) ==
    IF groom THEN TRUE
    ELSE IF slope.groomed /\ ungroom THEN FALSE
    ELSE slope.groomed

\* Mutant of after_grooming: the ungroom attempt comes first.
after_grooming_ungroom_first(slope, groom, ungroom) ==
    IF slope.groomed /\ ungroom THEN FALSE
    ELSE IF slope.difficulty \in {"green", "blue"} /\ groom THEN TRUE
    ELSE slope.groomed

\* groomed after the if / elif of _update_slopes
after_grooming(slope, groom, ungroom) ==
    IF slope.difficulty \in {"green", "blue"} /\ groom THEN TRUE
    ELSE IF slope.groomed /\ ungroom THEN FALSE
    ELSE slope.groomed

\* Mutant of updated_depth: no floor at 0.
updated_depth_unfloored(depth, du, w) ==
    LET depth_delta == du * config.slopes.depth_drift
                         + (IF w.snow_intensity > 10 THEN w.snow_intensity ELSE 0)
        new_depth == depth * 10 + depth_delta
    IN  IF new_depth >= 0 THEN RoundDiv(new_depth, 10) ELSE -RoundDiv(-new_depth, 10)

\* snow_depth_cm after the depth walk, draw du in {-1, 0, 1}:
\* round(max(0, depth + drift + snow_intensity * 0.1 if snow_intensity > 1), 1),
\* computed in hundredths of cm
updated_depth(depth, du, w) ==
    LET depth_delta == du * config.slopes.depth_drift
                         + (IF w.snow_intensity > 10 THEN w.snow_intensity ELSE 0)
        new_depth == depth * 10 + depth_delta
    IN  RoundDiv(Max(0, new_depth), 10)

\* One turn of the loop of _update_slopes
update_slope(slope, du, reopen, groom, ungroom, w, s) ==
    [ slope EXCEPT
        !.snow_depth_cm = updated_depth(slope.snow_depth_cm, du, w),
        !.is_open = after_reopen(slope, after_closures(slope, w, s), reopen, w, s),
        !.groomed = after_grooming(slope, groom, ungroom) ]

\* The reopen draw a slope's turn consumed: "not drawn" when the slope was open
\* after the closure statements, so that random.random() was not called.
reopen_draw(slope, reopen, w, s) ==
    IF after_closures(slope, w, s) THEN "not drawn"
    ELSE IF reopen THEN "success" ELSE "failure"

\* The groom draw a slope's turn consumed: "not drawn" when the difficulty test
\* of the if fails, so that random.random() is not called.
groom_draw(slope, groom) ==
    IF slope.difficulty \in {"green", "blue"}
    THEN IF groom THEN "success" ELSE "failure"
    ELSE "not drawn"

\* The ungroom draw a slope's turn consumed: "not drawn" when the if branch was
\* taken or the slope was not groomed.
ungroom_draw(slope, groom, ungroom) ==
    IF groom_draw(slope, groom) = "success" THEN "not drawn"
    ELSE IF slope.groomed
         THEN IF ungroom THEN "success" ELSE "failure"
         ELSE "not drawn"

\* The draws of one slope's turn under a profile.
SlopeDraws(P, i) ==
    IF i \in P.slopes
    THEN P.depth \X P.reopen \X P.groom \X P.ungroom
    ELSE { <<0, FALSE, FALSE, FALSE>> }

\* What _update_slopes can leave: every slope takes its turn, in order. Each
\* element pairs the slope with the reopen, groom and ungroom draws its turn
\* consumed.
RECURSIVE updated_slopes(_, _, _, _, _)
updated_slopes(P, ss, n, w, s) ==
    IF n = 0 THEN { <<>> }
    ELSE { Append(r, [ slope |-> update_slope(ss[n], d[1], d[2], d[3], d[4], w, s),
                       reopen |-> reopen_draw(ss[n], d[2], w, s),
                       groom |-> groom_draw(ss[n], d[3]),
                       ungroom |-> ungroom_draw(ss[n], d[3], d[4]) ]) :
             r \in updated_slopes(P, ss, n - 1, w, s), d \in SlopeDraws(P, n) }

\* _update_slopes, after which update() returns and the loop awaits
\* asyncio.sleep(interval)
UpdateSlopes(P) ==
    /\ pc = "slopes"
    /\ \E r \in updated_slopes(P, slopes, Len(slopes), weather, safety) :
         /\ slopes' = [ i \in 1..Len(r) |-> r[i].slope ]
         /\ drawn' = [ reopen |-> [ i \in 1..Len(r) |-> r[i].reopen ],
                       groom |-> [ i \in 1..Len(r) |-> r[i].groom ],
                       ungroom |-> [ i \in 1..Len(r) |-> r[i].ungroom ] ]
    /\ pc' = "sleeping"
    /\ last_tick' = IF P.track
                    THEN [ current_time |-> current_time, weather |-> weather,
                           lifts |-> lifts, slopes |-> slopes', safety |-> safety,
                           incident_history |-> incident_history ]
                    ELSE Absent
    /\ UNCHANGED <<agent, generator, current_time, weather, lifts, safety,
                   incident_history, response, held,
                   reports_list>>

\* The engine alone: construction and the ticks of the driving loop.
Engine(P) ==
    \/ Startup(P)
    \/ BeginUpdate(P)
    \/ UpdateWeather(P)
    \/ UpdateLifts(P)
    \/ UpdateSafety(P)
    \/ UpdateSlopes(P)

----------------------------------------------------------------------------
(* Weather: every weather draw varies.                                     *)

WeatherDraws ==
    [ Frozen EXCEPT !.init_temp = {-10, 0}, !.init_wind = {5, 25},
                    !.init_snow = {0, 20}, !.init_vis = {5000, 10000},
                    !.temp = {-1, 0, 1}, !.wind = {-1, 0, 1},
                    !.snow = {-1, 0, 1}, !.vis = {-1, 0, 1} ]

WeatherNext == Engine(WeatherDraws)

WeatherSpec == Init /\ [][WeatherNext]_vars

Constructed == generator # None

\* C1: in every state reachable by construction and any number of update()
\* calls the weather fields are in their domains: temperature in [-15, 5],
\* wind_speed in [0, 80], snow_intensity in [0, 5], visibility in [50, 10000].
WeatherInDomain ==
    Constructed =>
        /\ weather.temperature >= -15 /\ weather.temperature <= 5
        /\ weather.wind_speed >= 0 /\ weather.wind_speed <= 80
        /\ weather.snow_intensity >= 0 /\ weather.snow_intensity <= 50
        /\ weather.visibility >= 50 /\ weather.visibility <= 10000

\* A tick has clamped the wind at its upper bound and the visibility at its
\* lower bound.
WeatherClamped ==
    /\ Constructed
    /\ weather.timestamp >= 1
    /\ weather.wind_speed = 80
    /\ weather.visibility = 50
    /\ weather.snow_intensity = 0

----------------------------------------------------------------------------
(* Lifts: the queue and status draws of the first two lifts vary.          *)

LiftDrawSet ==
    [ Frozen EXCEPT !.lifts = {1, 2}, !.init_queue = {10, 80},
                    !.queue = {-1, 0, 1}, !.status_change = BOOLEAN ]

LiftNext == Engine(LiftDrawSet)

LiftSpec == Init /\ [][LiftNext]_vars

\* C2: for every lift, in every reachable state, wait_time_minutes is
\* round(queue_length / throughput_rate * 60, 1) when the status is open and
\* throughput_rate > 0, and 0 otherwise, for the lift's current queue_length,
\* throughput_rate and status.
WaitTimeDerived ==
    Constructed =>
        \A i \in DOMAIN lifts :
            lifts[i].wait_time_minutes =
                IF lifts[i].status = "open" /\ lifts[i].throughput_rate > 0
                THEN RoundDiv(lifts[i].queue_length * 600, lifts[i].throughput_rate)
                ELSE 0

\* After a tick: the lift of throughput 2400 is open with 80 queueing and waits
\* 2.0 minutes, and another lift is not open, has a queue and waits 0.
WaitTimeScenario ==
    /\ Constructed
    /\ lifts[1].timestamp >= 2
    /\ lifts[1].throughput_rate = 2400
    /\ lifts[1].queue_length = 80
    /\ lifts[1].status = "open"
    /\ lifts[1].wait_time_minutes = 20
    /\ lifts[2].status = "maintenance"
    /\ lifts[2].queue_length = 110
    /\ lifts[2].wait_time_minutes = 0

----------------------------------------------------------------------------
(* Incident history: an incident nearly every tick, past the capacity.     *)

HistoryDraws ==
    [ Frozen EXCEPT !.max_time = MaxHistoryTime,
                    !.incident = IF current_time > QuietTicks THEN {TRUE} ELSE BOOLEAN,
                    !.types = {"collision"}, !.severities = {"low"} ]

HistoryNext == Engine(HistoryDraws)

HistorySpec == Init /\ [][HistoryNext]_vars

\* C3: the incident history never holds more than 20 entries, whatever the
\* number of incidents generated: both the internal history and
\* safety.incident_reports have length at most 20.
HistoryBounded ==
    Constructed =>
        /\ Len(incident_history) <= 20
        /\ Len(safety.incident_reports) <= 20

\* More than 20 incidents were generated: the history is full and its oldest
\* entry is not the first incident generated.
HistoryFullAfterEviction ==
    /\ Constructed
    /\ Len(incident_history) = 20
    /\ Len(safety.incident_reports) = 20
    /\ incident_history[1].timestamp >= 2
    /\ incident_history[20].timestamp >= 22

\* C4: eviction is FIFO by insertion. A safety step that changes the history
\* appends one incident at the end; if the history held 20 entries exactly the
\* first is dropped and the other 19 keep their order; if it held fewer than 20
\* nothing is dropped.
EvictionIsFifo ==
    [][ (pc = "safety" /\ incident_history' # incident_history) =>
            /\ incident_history'[Len(incident_history')].timestamp = current_time
            /\ IF Len(incident_history) = 20
               THEN /\ Len(incident_history') = 20
                    /\ \A i \in 1..19 : incident_history'[i] = incident_history[i + 1]
               ELSE /\ Len(incident_history') = Len(incident_history) + 1
                    /\ \A i \in 1..Len(incident_history) :
                          incident_history'[i] = incident_history[i] ]_vars

\* An incident was appended to a full history: the 19 newest of the previous
\* tick are now first, in order, and the new one is last.
EvictedOldest ==
    /\ Constructed
    /\ pc = "sleeping"
    /\ Len(incident_history) = 20
    /\ incident_history[20].timestamp = current_time
    /\ incident_history[19].timestamp = current_time - 1
    /\ incident_history[1].timestamp = current_time - 19
    /\ current_time >= 22

----------------------------------------------------------------------------
(* Slope closures: wind, risk and the reopen draws of a red and a black    *)
(* slope vary.                                                             *)

ClosureDraws ==
    [ Frozen EXCEPT !.init_wind = {25}, !.wind = {-1, 0, 1},
                    !.init_risk = {40}, !.risk = {-1, 0, 1},
                    !.slopes = {6, 7}, !.reopen = BOOLEAN ]

ClosureNext == Engine(ClosureDraws)

ClosureSpec == Init /\ [][ClosureNext]_vars

\* update() has returned: the state is the one the last tick left.
AfterUpdate == pc = "sleeping"

\* C5: after every update(), every black slope is closed whenever the
\* avalanche_risk_index that update produced is greater than 0.8, whatever the
\* slope's state before the tick and whatever the reopen draw.
BlackClosedOnAvalancheRisk ==
    AfterUpdate =>
        \A i \in DOMAIN slopes :
            (slopes[i].difficulty = "black" /\ safety.avalanche_risk_index > 80)
                => ~slopes[i].is_open

\* A tick ended with the risk above 0.8 and a black slope closed although its
\* reopen draw succeeded.
BlackKeptClosed ==
    /\ AfterUpdate
    /\ safety.avalanche_risk_index > 80
    /\ weather.wind_speed <= 60
    /\ slopes[7].difficulty = "black"
    /\ drawn.reopen[7] = "success"
    /\ ~slopes[7].is_open

\* C6: after every update(), every red or black slope is closed whenever the
\* wind_speed that update produced is greater than 60; and when a forced-closure
\* rule and a successful reopen draw apply to the same slope in one tick, the
\* slope ends the tick closed.
ForcedClosureWins ==
    AfterUpdate =>
        \A i \in DOMAIN slopes :
            /\ (slopes[i].difficulty \in {"red", "black"} /\ weather.wind_speed > 60)
                  => ~slopes[i].is_open
            /\ ( /\ drawn.reopen[i] = "success"
                 /\ \/ slopes[i].difficulty = "black" /\ safety.avalanche_risk_index > 80
                    \/ slopes[i].difficulty \in {"red", "black"} /\ weather.wind_speed > 60 )
                  => ~slopes[i].is_open

\* A tick ended with the wind above 60 and a red slope closed although its
\* reopen draw succeeded.
RedKeptClosed ==
    /\ AfterUpdate
    /\ weather.wind_speed > 60
    /\ slopes[6].difficulty = "red"
    /\ drawn.reopen[6] = "success"
    /\ ~slopes[6].is_open

----------------------------------------------------------------------------
(* main.py: the request handlers, and get_state                            *)

\* The loop task does not hold the event loop: it has not started, it is
\* awaiting one of the two asyncio.sleep calls, or it has ended. update() holds
\* no await, so from its call to its return no other coroutine runs.
Suspended == pc \in {"none", "created", "sleeping", "backoff", "cancelled"}

\* A reference to a live object of the generator.
Ref(path) == [ ref |-> path ]

\* The object a reference designates, as it is now.
Deref(r) ==
    CASE r.ref[1] = "weather" -> weather
      [] r.ref[1] = "safety"  -> safety
      [] r.ref[1] = "lifts"   -> lifts[r.ref[2]]
      [] r.ref[1] = "slopes"  -> slopes[r.ref[2]]

\* ResortState(...) built from model instances: pydantic keeps the instances it
\* is given as field values, and builds a new list of the same instances for a
\* List field; the datetime is a value.
ResortState(w, ls, s, ss, timestamp) ==
    [ weather |-> w, lifts |-> ls, safety |-> s, slopes |-> ss,
      timestamp |-> timestamp ]

\* Mutant of get_state: timestamp=datetime.now(), a clock reading of its own.
get_state_reads_clock ==
    ResortState(Ref(<<"weather">>),
                [ i \in 1..Len(lifts) |-> Ref(<<"lifts", i>>) ],
                Ref(<<"safety">>),
                [ i \in 1..Len(slopes) |-> Ref(<<"slopes", i>>) ],
                IF held.taken THEN held.returned.timestamp + 1 ELSE current_time)

\* DataGenerator.get_state
get_state ==
    ResortState(Ref(<<"weather">>),
                [ i \in 1..Len(lifts) |-> Ref(<<"lifts", i>>) ],
                Ref(<<"safety">>),
                [ i \in 1..Len(slopes) |-> Ref(<<"slopes", i>>) ],
                current_time)

\* The field values reachable from a ResortState, read now.
ValueOf(state) ==
    [ weather |-> Deref(state.weather),
      lifts |-> [ i \in DOMAIN state.lifts |-> Deref(state.lifts[i]) ],
      safety |-> Deref(state.safety),
      slopes |-> [ i \in DOMAIN state.slopes |-> Deref(state.slopes[i]) ],
      timestamp |-> state.timestamp ]

\* get_lift: the generator (l for l in generator.lifts if l.lift_id == lift_id)
\* yields a lift
has_lift(ls, lift_id) == \E i \in DOMAIN ls : ls[i].lift_id = lift_id

\* Mutant of find_lift: the first lift of the list, whatever the id.
find_lift_default(ls, lift_id) == ls[1]

\* get_lift: next(...) of that generator, the first lift of the list with the id
find_lift(ls, lift_id) ==
    ls[CHOOSE i \in DOMAIN ls :
          /\ ls[i].lift_id = lift_id
          /\ \A j \in DOMAIN ls : ls[j].lift_id = lift_id => i <= j]

\* What the accessor of a kind answers from an engine state st (a response
\* body is a record; the bare entity or list is its one field).
Project(kind, arg, st) ==
    CASE kind = "state"   -> [ weather |-> st.weather, lifts |-> st.lifts,
                               safety |-> st.safety, slopes |-> st.slopes,
                               timestamp |-> st.current_time ]
      [] kind = "weather" -> [ weather |-> st.weather ]
      [] kind = "lifts"   -> [ lifts |-> st.lifts ]
      [] kind = "safety"  -> [ safety |-> st.safety ]
      [] kind = "slopes"  -> [ slopes |-> st.slopes ]
      [] kind = "lift"    -> [ lift |-> find_lift(st.lifts, arg) ]

\* Mutant of Answer: no `if generator is None` test; the attribute access on
\* None raises and the framework answers 500.
Answer_unguarded(kind, arg) ==
    IF generator = None
    THEN [ kind |-> kind, arg |-> arg, status |-> 500,
           body |-> [ detail |-> "Internal Server Error" ],
           boundary |-> Absent, at |-> pc ]
    ELSE [ kind |-> kind, arg |-> arg, status |-> 200,
           body |-> Project(kind, arg, EngineState),
           boundary |-> Project(kind, arg, last_tick), at |-> pc ]

\* The answer of a handler: 503 without a generator, else the serialized value.
\* boundary and at are history fields: what the same accessor would have
\* answered at the last tick boundary, and where the loop task was.
Answer(kind, arg) ==
    IF generator = None
    THEN [ kind |-> kind, arg |-> arg, status |-> 503,
           body |-> [ detail |-> "Generator not initialized" ],
           boundary |-> Absent, at |-> pc ]
    ELSE [ kind |-> kind, arg |-> arg, status |-> 200,
           body |-> Project(kind, arg, EngineState),
           boundary |-> Project(kind, arg, last_tick), at |-> pc ]

\* GET /api/current-state
get_current_state ==
    /\ Suspended
    /\ response' = IF generator = None
                   THEN Answer("state", None)
                   ELSE [ Answer("state", None) EXCEPT !.body = ValueOf(get_state) ]
    /\ held' = IF generator = None THEN held
               ELSE [ taken |-> TRUE, state |-> get_state,
                      returned |-> ValueOf(get_state),
                      previous |-> IF held.taken /\ held.at = current_time
                                   THEN held.returned ELSE Absent,
                      at |-> current_time ]
    /\ UNCHANGED <<agent, generator, pc, current_time, weather, lifts, slopes, safety,
                   incident_history, drawn, last_tick,
                   reports_list>>

\* GET /api/weather (and /api/current-state/weather, the same body)
get_weather ==
    /\ Suspended
    /\ response' = Answer("weather", None)
    /\ UNCHANGED <<agent, generator, pc, current_time, weather, lifts, slopes, safety,
                   incident_history, held, drawn, last_tick,
                   reports_list>>

\* GET /api/lifts (and /api/current-state/lifts, the same body)
get_lifts ==
    /\ Suspended
    /\ response' = Answer("lifts", None)
    /\ UNCHANGED <<agent, generator, pc, current_time, weather, lifts, slopes, safety,
                   incident_history, held, drawn, last_tick,
                   reports_list>>

\* Mutant of get_safety: the handler stamps the record it serves.
get_safety_stamping ==
    /\ Suspended
    /\ response' = Answer("safety", None)
    /\ safety' = IF generator = None THEN safety
                 ELSE [ safety EXCEPT !.timestamp = current_time + 1 ]
    /\ UNCHANGED <<agent, generator, pc, current_time, weather, lifts, slopes,
                   incident_history, reports_list, held, drawn, last_tick>>

\* GET /api/safety (and /api/current-state/safety, the same body)
get_safety ==
    /\ Suspended
    /\ response' = Answer("safety", None)
    /\ UNCHANGED <<agent, generator, pc, current_time, weather, lifts, slopes, safety,
                   incident_history, held, drawn, last_tick,
                   reports_list>>

\* GET /api/slopes (and /api/current-state/slopes, the same body)
get_slopes ==
    /\ Suspended
    /\ response' = Answer("slopes", None)
    /\ UNCHANGED <<agent, generator, pc, current_time, weather, lifts, slopes, safety,
                   incident_history, held, drawn, last_tick,
                   reports_list>>

\* The lift ids requested: one of the catalog, one absent from it.
RequestedLiftIds == {"chairlift-alpha", "no-such-lift"}

\* GET /api/lifts/{lift_id}
get_lift ==
    /\ Suspended
    /\ \E lift_id \in RequestedLiftIds :
         response' =
            IF generator # None /\ ~has_lift(lifts, lift_id)
            THEN [ kind |-> "lift", arg |-> lift_id, status |-> 404,
                   body |-> [ detail |-> "Lift '{lift_id}' not found",
                              lift_id |-> lift_id ],
                   boundary |-> Absent, at |-> pc ]
            ELSE Answer("lift", lift_id)
    /\ UNCHANGED <<agent, generator, pc, current_time, weather, lifts, slopes, safety,
                   incident_history, held, drawn, last_tick,
                   reports_list>>

Handlers ==
    \/ get_current_state
    \/ get_weather
    \/ get_lifts
    \/ get_safety
    \/ get_slopes
    \/ get_lift

----------------------------------------------------------------------------
(* The service: the driving loop and the request handlers on one event     *)
(* loop.  The wind, one lift's queue and one slope's depth vary.           *)

ServiceDraws ==
    [ Frozen EXCEPT !.max_time = MaxServiceTime, !.track = TRUE,
                    !.wind = {0, 1}, !.lifts = {2}, !.queue = {0, 1},
                    !.slopes = {1}, !.depth = {-1, 1} ]

ServiceNext == Engine(ServiceDraws) \/ Handlers

ServiceSpec == Init /\ [][ServiceNext]_vars

\* C7: readers never observe a partially-updated state. Every answer a read
\* accessor gives from the engine equals what the same accessor answers from the
\* state of a tick boundary (construction, or the return of update()): all the
\* effects of a tick on weather, lifts, safety and slopes, or none.
ReadersSeeWholeTicks ==
    response.status = 200 => response.body = response.boundary

\* The whole-state accessor has answered between two ticks, after a tick that
\* changed the weather, a lift and a slope.
ReadBetweenTicks ==
    /\ response.status = 200
    /\ response.kind = "state"
    /\ response.at = "sleeping"
    /\ response.body.timestamp = 2
    /\ response.body.weather.wind_speed = 45
    /\ response.body.lifts[2].queue_length = 110
    /\ pc = "safety"

----------------------------------------------------------------------------
(* The service with failing ticks: an exception may leave update() at the  *)
(* entry of any of its four steps.                                         *)

\* An exception raised inside update(), at the entry of a step (each step
\* starts by reading its section of self.config), caught by the except branch
\* of data_update_loop, which logs it and awaits asyncio.sleep(2).
Fault ==
    /\ pc \in {"weather", "lifts", "safety", "slopes"}
    /\ pc' = "backoff"
    /\ UNCHANGED <<agent, generator, current_time, weather, lifts, slopes, safety,
                   incident_history, response, held, drawn, last_tick,
                   reports_list>>

\* The steps the loop task takes by itself once the event loop runs it.
LoopStep(P) ==
    \/ BeginUpdate(P)
    \/ UpdateWeather(P)
    \/ UpdateLifts(P)
    \/ UpdateSafety(P)
    \/ UpdateSlopes(P)

\* Fixed draws: a rising wind. The runs differ by where the ticks fail.
FaultDraws ==
    [ Frozen EXCEPT !.max_time = MaxServiceTime, !.track = TRUE, !.wind = {1} ]

FaultNext == Engine(FaultDraws) \/ Handlers \/ Fault

\* The event loop runs a task whose sleep has elapsed, and a running update()
\* goes on to its next statement.
FaultSpec == Init /\ [][FaultNext]_vars /\ WF_vars(LoopStep(FaultDraws))

\* The entities the accessors serve.
Served(st) ==
    [ weather |-> st.weather, lifts |-> st.lifts, safety |-> st.safety,
      slopes |-> st.slopes ]

\* C8: no partial tick effects persist after a failed tick. Once an exception
\* has left update(), the entities served equal those the last successful tick
\* (or construction) left.
FailedTickLeavesLastGoodState ==
    pc = "backoff" => Served(EngineState) = Served(last_tick)

\* C9: a tick failure does not stop the driving loop. While the loop waits out
\* the backoff after a failed tick the read accessors answer, and the loop calls
\* update() again (within the ticks explored).
LoopRetriesAfterFailure ==
    /\ [](pc = "backoff" => ENABLED get_current_state /\ ENABLED get_lift)
    /\ (pc = "backoff" /\ current_time < MaxServiceTime) ~> (pc = "weather")

\* An accessor answered during the backoff of a failed tick, and update() has
\* been called again since.
RetriedAfterFailure ==
    /\ response.at = "backoff"
    /\ response.status = 200
    /\ pc = "weather"
    /\ current_time > response.body.timestamp

\* C10: a snapshot is an immutable view. The field values reachable from an
\* aggregate get_state() returned stay those it had when it was returned,
\* whatever update() does afterwards.
SnapshotKeepsValues ==
    held.taken => ValueOf(held.state) = held.returned

\* C11: two calls of get_state() with no update() between them return
\* identical values for every field of weather, lifts, slopes, safety and
\* timestamp.
RepeatedSnapshotsAgree ==
    (held.taken /\ held.previous # Absent) => held.returned = held.previous

\* get_state() was called twice between the second and the third tick.
SnapshotTakenTwice ==
    /\ held.taken
    /\ held.previous # Absent
    /\ held.at = 2
    /\ pc = "sleeping"
    /\ held.returned.weather.wind_speed = 45

----------------------------------------------------------------------------
(* The exposed incident list in the hands of a caller: get_state().safety  *)
(* is the engine's SafetyData, so its incident_reports list can be edited  *)
(* in place by whoever holds it.                                           *)

\* Reversed list
Reverse(s) == [ i \in 1..Len(s) |-> s[Len(s) + 1 - i] ]

\* In-place edits of a list: del l[0], l.reverse(), l.append(l[0])
edited(reports, edit) ==
    CASE edit = "remove"  -> Tail(reports)
      [] edit = "reorder" -> Reverse(reports)
      [] edit = "add"     -> Append(reports, reports[1])

\* A caller edits the list it reads as safety.incident_reports, between two
\* ticks. The history changes with it only if it is the same list object.
EditReports ==
    /\ Suspended
    /\ generator # None
    /\ incident_history # <<>>
    /\ safety.incident_reports = incident_history
    /\ \E edit \in {"remove", "reorder", "add"} :
          safety' = [ safety EXCEPT !.incident_reports = edited(@, edit) ]
    /\ incident_history' = IF reports_list = "_incident_history"
                           THEN safety'.incident_reports
                           ELSE incident_history
    /\ UNCHANGED <<agent, generator, pc, current_time, weather, lifts, slopes,
                   reports_list, response, held, drawn, last_tick>>

\* Incidents come and go; one type, one severity, one location.
EditDraws ==
    [ Frozen EXCEPT !.incident = BOOLEAN, !.types = {"lost_person"},
                    !.severities = {"high"} ]

EditNext == Engine(EditDraws) \/ EditReports

EditSpec == Init /\ [][EditNext]_vars

\* C12: the safety step of every update() leaves safety.incident_reports equal
\* to the internal incident history, element for element and in order; and it
\* is a separate sequence: adding to, removing from or reordering the exposed
\* list leaves the internal history unchanged.
ReportsAreACopy ==
    [][ /\ (pc = "safety" /\ pc' = "slopes")
            => safety'.incident_reports = incident_history'
        /\ EditReports => incident_history' = incident_history ]_vars

\* The exposed list was edited after a tick that left two incidents: it lost its
\* first entry and the history kept both.
ReportsEdited ==
    /\ pc = "sleeping"
    /\ Len(incident_history) = 2
    /\ safety.incident_reports = Tail(incident_history)
    /\ incident_history[1].timestamp < incident_history[2].timestamp

----------------------------------------------------------------------------
(* The lift-by-id lookup.                                                  *)

\* C13: with a generator, GET /api/lifts/{lift_id} answers 200 with the lift
\* whose lift_id equals the requested id when the engine has one, and 404 when
\* it has none; it never answers a default or a different lift, and the lookup
\* leaves the engine state unchanged.
LiftLookupExactOrNotFound ==
    [][ (get_lift /\ generator # None) =>
          /\ IF \E i \in DOMAIN lifts : lifts[i].lift_id = response'.arg
             THEN /\ response'.status = 200
                  /\ response'.body.lift.lift_id = response'.arg
                  /\ \E i \in DOMAIN lifts : response'.body.lift = lifts[i]
             ELSE /\ response'.status = 404
                  /\ response'.body = [ detail |-> "Lift '{lift_id}' not found",
                                         lift_id |-> response'.arg ]
          /\ UNCHANGED <<current_time, weather, lifts, slopes, safety,
                         incident_history>> ]_vars

\* After a tick, a lookup of an id no lift has was answered 404.
LiftNotFound ==
    /\ response.kind = "lift"
    /\ response.arg = "no-such-lift"
    /\ response.status = 404
    /\ response.at = "sleeping"
    /\ current_time >= 1
    /\ \A i \in DOMAIN lifts : lifts[i].lift_id # "no-such-lift"

----------------------------------------------------------------------------
(* One tick across the four sub-systems: wind and snowfall rise across the *)
(* thresholds the safety and slope steps test, the risk follows, incidents *)
(* may be generated and a black slope may draw a reopen.                   *)

OrderDraws ==
    [ Frozen EXCEPT !.max_time = MaxOrderTime,
                    !.init_wind = {25}, !.wind = {0, 1},
                    !.init_snow = {20}, !.snow = {0, 1},
                    !.init_risk = {40}, !.risk = {-1, 0, 1},
                    !.incident = BOOLEAN,
                    !.types = {"collision", "avalanche_warning"},
                    !.severities = {"high"},
                    !.slopes = {7}, !.reopen = BOOLEAN ]

OrderNext == Engine(OrderDraws)

OrderSpec == Init /\ [][OrderNext]_vars

\* The bonus the safety step adds to the risk drift for a weather.
WeatherBonus(w) ==
    (IF w.wind_speed > 50 THEN config.safety.risk_drift \div 2 ELSE 0)
      + (IF w.snow_intensity > 30 THEN config.safety.risk_drift \div 2 ELSE 0)

\* What the slope step adds to the depth drift for a weather, in hundredths of
\* cm: snow_intensity * 0.1 when snow_intensity > 1.
SnowfallGain(w) == IF w.snow_intensity > 10 THEN w.snow_intensity ELSE 0

\* C14: one update() advances weather, lifts, safety and slopes once each, in
\* that order, each step changing its own sub-system only, and later steps read
\* the values produced earlier in the same tick: the safety step tests
\* wind_speed > 50 and snow_intensity > 3 on this tick's weather, a generated
\* incident tests this tick's avalanche_risk_index, and the slope step tests
\* this tick's avalanche_risk_index, wind_speed and snow_intensity.
OneTickInOrder ==
    [][ /\ pc = "weather" =>
              /\ pc' = "lifts"
              /\ weather'.timestamp = current_time
              /\ UNCHANGED <<lifts, safety, slopes, incident_history>>
        /\ pc = "lifts" =>
              /\ pc' = "safety"
              /\ weather.timestamp = current_time
              /\ \A i \in DOMAIN lifts : lifts'[i].timestamp = current_time
              /\ UNCHANGED <<weather, safety, slopes, incident_history>>
        /\ pc = "safety" =>
              /\ pc' = "slopes"
              /\ weather.timestamp = current_time
              /\ \A i \in DOMAIN lifts : lifts[i].timestamp = current_time
              /\ safety'.timestamp = current_time
              /\ safety'.avalanche_risk_index >=
                   Max(0, Min(100, safety.avalanche_risk_index + WeatherBonus(weather)
                                     - config.safety.risk_drift))
              /\ safety'.avalanche_risk_index <=
                   Max(0, Min(100, safety.avalanche_risk_index + WeatherBonus(weather)
                                     + config.safety.risk_drift))
              /\ ( /\ incident_history' # incident_history
                   /\ incident_history'[Len(incident_history')].incident_type
                         = "avalanche_warning" )
                    => safety'.avalanche_risk_index > 70
              /\ UNCHANGED <<weather, lifts, slopes>>
        /\ pc = "slopes" =>
              /\ pc' = "sleeping"
              /\ weather.timestamp = current_time
              /\ safety.timestamp = current_time
              /\ \A i \in DOMAIN slopes :
                    /\ (slopes[i].difficulty = "black" /\ safety.avalanche_risk_index > 80)
                          => ~slopes'[i].is_open
                    /\ (slopes[i].difficulty \in {"red", "black"} /\ weather.wind_speed > 60)
                          => ~slopes'[i].is_open
                    /\ slopes'[i].snow_depth_cm >=
                          RoundDiv(Max(0, slopes[i].snow_depth_cm * 10
                                            - config.slopes.depth_drift
                                            + SnowfallGain(weather)), 10)
                    /\ slopes'[i].snow_depth_cm <=
                          RoundDiv(Max(0, slopes[i].snow_depth_cm * 10
                                            + config.slopes.depth_drift
                                            + SnowfallGain(weather)), 10)
              /\ UNCHANGED <<weather, lifts, safety, incident_history>>
      ]_vars

\* The second tick took the wind to 65 and the snowfall to 4.0, values no
\* earlier tick had (the wind was at most 45, the snowfall at most 3.0, the
\* risk at most 0.6): its safety step raised the risk above 0.7, its incident is
\* an avalanche warning, and its slope step closed the red slope and deepened
\* the snow.
TickReadItsOwnValues ==
    /\ pc = "sleeping"
    /\ current_time = 2
    /\ weather.wind_speed = 65
    /\ weather.snow_intensity = 40
    /\ safety.avalanche_risk_index = 80
    /\ Len(incident_history) = 1
    /\ incident_history[1].incident_type = "avalanche_warning"
    /\ incident_history[1].timestamp = 2
    /\ ~slopes[6].is_open
    /\ slopes[1].snow_depth_cm > 850

----------------------------------------------------------------------------
(* The catalog: a lift and a black slope change in every way a tick can    *)
(* change them.                                                            *)

CatalogDraws ==
    [ Frozen EXCEPT !.max_time = MaxOrderTime,
                    !.init_wind = {25}, !.wind = {0, 1},
                    !.lifts = {1}, !.queue = {0, 1}, !.status_change = BOOLEAN,
                    !.slopes = {7}, !.depth = {0, 1}, !.reopen = BOOLEAN ]

CatalogNext == Engine(CatalogDraws)

CatalogSpec == Init /\ [][CatalogNext]_vars

\* C15: the lift and slope sets are fixed. After construction and after any
\* number of update() calls the engine holds the 5 lifts and 8 slopes of
\* construction in the same order, each lift with its lift_id, name and
\* throughput_rate and each slope with its slope_id, name and difficulty.
CatalogFixed ==
    Constructed =>
        /\ Len(lifts) = 5
        /\ Len(slopes) = 8
        /\ \A i \in DOMAIN lifts :
              /\ lifts[i].lift_id = lift_configs[i].lift_id
              /\ lifts[i].name = lift_configs[i].name
              /\ lifts[i].throughput_rate = lift_configs[i].throughput
        /\ \A i \in DOMAIN slopes :
              /\ slopes[i].slope_id = slope_configs[i].slope_id
              /\ slopes[i].name = slope_configs[i].name
              /\ slopes[i].difficulty = slope_configs[i].difficulty

\* Three ticks have changed the first lift's status and queue, and a wind above
\* 60 has closed the first black slope, which has deepened.
CatalogAfterChanges ==
    /\ pc = "sleeping"
    /\ current_time >= 3
    /\ lifts[1].status = "maintenance"
    /\ lifts[1].queue_length = 200
    /\ ~slopes[7].is_open
    /\ slopes[7].snow_depth_cm > 1300

----------------------------------------------------------------------------
(* Risk and queues: the risk walks under a rising wind, two queues walk.   *)

RangeDraws ==
    [ Frozen EXCEPT !.init_wind = {25}, !.wind = {0, 1},
                    !.init_risk = {10, 40}, !.risk = {-1, 0, 1},
                    !.lifts = {1, 2}, !.init_queue = {10, 80},
                    !.queue = {-1, 0, 1} ]

RangeNext == Engine(RangeDraws)

RangeSpec == Init /\ [][RangeNext]_vars

\* C16: in every state reachable by construction and any number of update()
\* calls avalanche_risk_index is in [0, 1] and every lift's queue_length is an
\* integer in [0, 200]; an out-of-range intermediate value is clamped, and a
\* running update() is never stopped by it: its next step can be taken.
RiskAndQueuesInDomain ==
    Constructed =>
        /\ safety.avalanche_risk_index >= 0
        /\ safety.avalanche_risk_index <= 100
        /\ \A i \in DOMAIN lifts : lifts[i].queue_length \in 0..200
        /\ pc \in {"weather", "lifts", "safety", "slopes"}
              => ENABLED LoopStep(RangeDraws)

\* A tick has clamped the risk at 1, one queue at 200 and another at 0, and the
\* update went on to its slope step.
RiskAndQueuesClamped ==
    /\ pc = "slopes"
    /\ safety.timestamp = current_time
    /\ safety.avalanche_risk_index = 100
    /\ lifts[1].queue_length = 200
    /\ lifts[2].queue_length = 0
    /\ lifts[1].timestamp = current_time

----------------------------------------------------------------------------
(* Timestamps.                                                             *)

\* C17: after every update(), every entity the tick touched carries the tick's
\* timestamp: weather.timestamp, every lift's timestamp, safety.timestamp and
\* every slope's timestamp equal the tick time, which is also the timestamp of
\* the snapshot get_state() returns.
EntitiesStamped ==
    (AfterUpdate /\ current_time >= 1) =>
        /\ weather.timestamp = current_time
        /\ \A i \in DOMAIN lifts : lifts[i].timestamp = current_time
        /\ safety.timestamp = current_time
        /\ get_state.timestamp = current_time
        /\ \A i \in DOMAIN slopes :
              /\ "timestamp" \in DOMAIN slopes[i]
              /\ slopes[i].timestamp = current_time

----------------------------------------------------------------------------
(* Incident generation.                                                    *)

\* Number of entries of a list equal to x
Count(list, x) == Cardinality({ i \in DOMAIN list : list[i] = x })

\* C18: when an incident is generated the candidate pool holds minor_injury,
\* collision, lost_person and equipment_failure once each, and holds
\* avalanche_warning exactly twice (6 entries in all) if and only if
\* avalanche_risk_index > 0.7 at that moment; so every avalanche_warning
\* entering the history is generated in a tick whose risk is above 0.7, and the
\* four baseline types stay in the pool at any risk level.
AvalancheWarningWeighted ==
    [][ pc = "safety" =>
          LET risk == safety'.avalanche_risk_index
              pool == incident_types(risk)
          IN  /\ \A t \in {"minor_injury", "collision", "lost_person", "equipment_failure"} :
                    Count(pool, t) = 1
              /\ Count(pool, "avalanche_warning") = IF risk > 70 THEN 2 ELSE 0
              /\ Len(pool) = IF risk > 70 THEN 6 ELSE 4
              /\ incident_history' # incident_history =>
                    LET incident == incident_history'[Len(incident_history')]
                    IN  /\ Count(pool, incident.incident_type) >= 1
                        /\ incident.incident_type = "avalanche_warning" => risk > 70
      ]_vars

\* Two ticks with the risk above 0.7 generated an avalanche warning, then a
\* collision.
WarningThenBaseline ==
    /\ pc = "sleeping"
    /\ current_time = 3
    /\ safety.avalanche_risk_index = 100
    /\ Len(incident_history) = 2
    /\ incident_history[1].incident_type = "avalanche_warning"
    /\ incident_history[1].timestamp = 2
    /\ incident_history[2].incident_type = "collision"
    /\ incident_history[2].timestamp = 3

----------------------------------------------------------------------------
(* Severities: every type and every severity can be drawn; the risk rises  *)
(* past 0.7 so that avalanche warnings are generated too.                  *)

SeverityDraws ==
    [ Frozen EXCEPT !.max_time = MaxOrderTime,
                    !.init_risk = {40}, !.risk = {1},
                    !.incident = BOOLEAN,
                    !.types = {"minor_injury", "collision", "lost_person",
                               "equipment_failure", "avalanche_warning"},
                    !.severities = {"low", "medium", "high", "critical"} ]

SeverityNext == Engine(SeverityDraws)

SeveritySpec == Init /\ [][SeverityNext]_vars

\* C19: every incident in the history has a severity allowed for its type:
\* minor_injury in {low, medium}, collision in {low, medium, high}, lost_person
\* in {medium, high}, equipment_failure in {low, medium, high},
\* avalanche_warning in {high, critical}; so a critical incident is always an
\* avalanche_warning.
SeverityAllowedForType ==
    \A i \in DOMAIN incident_history :
        LET incident == incident_history[i]
        IN  /\ incident.incident_type = "minor_injury"
                  => incident.severity \in {"low", "medium"}
            /\ incident.incident_type = "collision"
                  => incident.severity \in {"low", "medium", "high"}
            /\ incident.incident_type = "lost_person"
                  => incident.severity \in {"medium", "high"}
            /\ incident.incident_type = "equipment_failure"
                  => incident.severity \in {"low", "medium", "high"}
            /\ incident.incident_type = "avalanche_warning"
                  => incident.severity \in {"high", "critical"}
            /\ incident.incident_type \in
                  {"minor_injury", "collision", "lost_person",
                   "equipment_failure", "avalanche_warning"}
            /\ incident.severity = "critical"
                  => incident.incident_type = "avalanche_warning"

\* The history holds a minor injury of medium severity, a critical avalanche
\* warning and a lost person of high severity.
SeveritiesMixed ==
    /\ Len(incident_history) = 3
    /\ incident_history[1].incident_type = "minor_injury"
    /\ incident_history[1].severity = "medium"
    /\ incident_history[2].incident_type = "avalanche_warning"
    /\ incident_history[2].severity = "critical"
    /\ incident_history[3].incident_type = "lost_person"
    /\ incident_history[3].severity = "high"

----------------------------------------------------------------------------
(* Read accessors and the engine state.                                    *)

\* C20: no read accessor mutates the engine. A call of get_state() or of the
\* weather, lifts, safety, slopes or lift-by-id handler leaves weather, lifts,
\* slopes, safety, the incident history and the tick time unchanged; only
\* construction and update() change them.
AccessorsReadOnly ==
    [][ /\ Handlers =>
              UNCHANGED <<current_time, weather, lifts, slopes, safety,
                          incident_history>>
        /\ <<current_time, weather, lifts, slopes, safety, incident_history>>'
              # <<current_time, weather, lifts, slopes, safety, incident_history>>
              => \/ generator = None /\ generator' # None
                 \/ LoopResumes /\ pc' = "weather"
                 \/ pc \in {"weather", "lifts", "safety", "slopes"} ]_vars

\* Between two ticks get_state() was called twice and then the safety handler
\* answered: the engine is as the last tick left it.
AccessorsCalled ==
    /\ pc = "sleeping"
    /\ current_time >= 1
    /\ held.taken
    /\ held.previous # Absent
    /\ held.at = current_time
    /\ response.kind = "safety"
    /\ response.status = 200
    /\ response.body.safety.timestamp = current_time
    /\ EngineState = last_tick

----------------------------------------------------------------------------
(* The single mutator.                                                     *)

\* C21: exactly one update() is in flight at a time. The service creates one
\* generator and one driving loop, at startup; update() is entered (its first
\* statement advances the tick time) only by that loop and only when the loop
\* is not inside a call, the previous call having returned or raised; no
\* request handler enters or advances an update().
OneUpdateInFlight ==
    [][ /\ current_time' # current_time =>
              /\ pc \in {"created", "sleeping", "backoff"}
              /\ pc' = "weather"
              /\ current_time' = current_time + 1
        /\ pc \in {"weather", "lifts", "safety", "slopes"} =>
              pc' \in {pc, "backoff",
                       CASE pc = "weather" -> "lifts"
                         [] pc = "lifts"   -> "safety"
                         [] pc = "safety"  -> "slopes"
                         [] pc = "slopes"  -> "sleeping"}
        /\ Handlers => (pc' = pc /\ generator' = generator)
        /\ generator' # generator => (generator = None /\ pc = "none" /\ pc' = "created")
        /\ pc' = "created" => pc \in {"none", "created"} ]_vars

\* The first update() returned, the second raised, and the loop has entered
\* the third.
ThirdUpdateEntered ==
    /\ pc = "weather"
    /\ current_time = 3
    /\ last_tick.current_time = 1
    /\ weather.timestamp = 2
    /\ safety.timestamp = 1

----------------------------------------------------------------------------
(* Construction: every initial draw takes the ends of its range (the       *)
(* profile also offers values just outside, which no draw can return).     *)

InitDraws ==
    [ Frozen EXCEPT !.max_time = MaxOrderTime,
                    !.init_temp = {-11, -10, 0, 1}, !.init_wind = {4, 5, 25, 26},
                    !.init_snow = {-1, 0, 20, 21},
                    !.init_vis = {4999, 5000, 10000, 10001},
                    !.init_risk = {9, 10, 40, 41},
                    !.lifts = {1, 5}, !.init_queue = {9, 10, 80, 81},
                    !.slopes = {1, 7}, !.init_variance = {-101, -100, 100, 101} ]

InitNext == Engine(InitDraws)

InitSpec == Init /\ [][InitNext]_vars

\* __init__ has returned and update() has not been called yet.
JustConstructed == pc = "created"

\* C22: the state right after construction satisfies the initialization
\* ranges: every lift is open with queue_length in [10, 80] and
\* wait_time_minutes = round(queue_length / throughput_rate * 60, 1);
\* temperature in [-10, 0], wind_speed in [5, 25], snow_intensity in [0, 2],
\* visibility in [5000, 10000]; avalanche_risk_index in [0.1, 0.4]; the incident
\* history and safety.incident_reports are empty; every slope is open with a
\* snow depth within 10 of its base depth.
InitialStateInRanges ==
    JustConstructed =>
        /\ \A i \in DOMAIN lifts :
              /\ lifts[i].status = "open"
              /\ lifts[i].queue_length \in 10..80
              /\ lifts[i].wait_time_minutes =
                    RoundDiv(lifts[i].queue_length * 600, lifts[i].throughput_rate)
        /\ weather.temperature >= -10 /\ weather.temperature <= 0
        /\ weather.wind_speed >= 5 /\ weather.wind_speed <= 25
        /\ weather.snow_intensity >= 0 /\ weather.snow_intensity <= 20
        /\ weather.visibility >= 5000 /\ weather.visibility <= 10000
        /\ safety.avalanche_risk_index >= 10 /\ safety.avalanche_risk_index <= 40
        /\ incident_history = <<>>
        /\ safety.incident_reports = <<>>
        /\ \A i \in DOMAIN slopes :
              /\ slopes[i].is_open
              /\ slopes[i].snow_depth_cm >= slope_configs[i].base_depth * 10 - 100
              /\ slopes[i].snow_depth_cm <= slope_configs[i].base_depth * 10 + 100

\* Construction drew the upper end of the queue, wind, risk and depth ranges and
\* the lower end of the temperature range.
ConstructedAtRangeEnds ==
    /\ JustConstructed
    /\ lifts[1].queue_length = 80
    /\ lifts[1].wait_time_minutes = 20
    /\ lifts[5].queue_length = 10
    /\ lifts[5].wait_time_minutes = 15
    /\ weather.temperature = -10
    /\ weather.wind_speed = 25
    /\ safety.avalanche_risk_index = 40
    /\ slopes[7].snow_depth_cm = 1400
    /\ slopes[1].snow_depth_cm = 750

----------------------------------------------------------------------------
(* Incident locations: a slope name and a lift name can be drawn (the      *)
(* profile also offers a slope id, which is no display name).              *)

LocationDraws ==
    [ Frozen EXCEPT !.incident = BOOLEAN, !.types = {"collision"},
                    !.severities = {"low"},
                    !.locations = {"Valley Run", "Kids Magic Carpet", "valley-run"} ]

LocationNext == Engine(LocationDraws)

LocationSpec == Init /\ [][LocationNext]_vars

\* The display names of the engine's slopes and lifts.
DisplayNames ==
    { slopes[i].name : i \in DOMAIN slopes } \cup { lifts[i].name : i \in DOMAIN lifts }

\* C23: every incident in the history has a location that is the display name
\* of one of the engine's slopes or lifts, one flat pool of the 8 slope names
\* and the 5 lift names; no incident refers to a name outside that pool.
LocationFromNamePool ==
    Constructed =>
        /\ Cardinality(DisplayNames) = 13
        /\ DisplayNames =
             { "Valley Run", "Sunrise Trail", "Alpine Meadow", "Eagle Ridge",
               "Timber Bowl", "North Face", "Summit Chute", "Avalanche Alley",
               "Summit Gondola", "Alpine Express", "Eagle Chair", "Beginner T-Bar",
               "Kids Magic Carpet" }
        /\ \A i \in DOMAIN incident_history :
              incident_history[i].location \in DisplayNames

\* The history holds an incident on a slope and an incident at a lift.
IncidentsOnSlopeAndLift ==
    /\ Len(incident_history) = 2
    /\ incident_history[1].location = "Kids Magic Carpet"
    /\ incident_history[2].location = "Valley Run"
    /\ pc = "sleeping"

----------------------------------------------------------------------------
(* Reopening.                                                              *)

\* C24: a closed slope is reopened only by the reopen step and only when
\* neither closure condition holds for this tick's values. A slope closed
\* before a tick and open after it had a successful reopen draw and is not
\* (black with avalanche_risk_index > 0.8) and not (red or black with
\* wind_speed > 60); a closed slope whose reopen draw fails stays closed; and no
\* other step of the tick changes is_open.
ReopenOnlyByDraw ==
    [][ /\ pc = "slopes" =>
              \A i \in DOMAIN slopes :
                 /\ (~slopes[i].is_open /\ slopes'[i].is_open) =>
                       /\ drawn'.reopen[i] = "success"
                       /\ ~(slopes[i].difficulty = "black" /\ safety.avalanche_risk_index > 80)
                       /\ ~(slopes[i].difficulty \in {"red", "black"} /\ weather.wind_speed > 60)
                 /\ (~slopes[i].is_open /\ drawn'.reopen[i] # "success") =>
                       ~slopes'[i].is_open
        /\ pc \in {"created", "sleeping", "weather", "lifts", "safety"} =>
              slopes' = slopes ]_vars

\* After a tick the red slope is open again on a successful reopen draw, the
\* wind having dropped to 45, and the black slope, whose draw failed, is still
\* closed although no rule closes it.
ReopenedAfterWindDropped ==
    /\ pc = "sleeping"
    /\ weather.wind_speed = 45
    /\ safety.avalanche_risk_index <= 80
    /\ drawn.reopen[6] = "success"
    /\ slopes[6].is_open
    /\ drawn.reopen[7] = "failure"
    /\ ~slopes[7].is_open

----------------------------------------------------------------------------
(* Lift status.                                                            *)

\* C25: in one tick a lift's status stays as it was or toggles: open changes
\* only to closed or maintenance, closed or maintenance changes only to open; a
\* lift never goes from closed to maintenance or from maintenance to closed
\* within a single update().
StatusTogglesOnly ==
    [][ /\ pc = "lifts" =>
              \A i \in DOMAIN lifts :
                 \/ lifts'[i].status = lifts[i].status
                 \/ lifts[i].status = "open" /\ lifts'[i].status \in {"closed", "maintenance"}
                 \/ lifts[i].status \in {"closed", "maintenance"} /\ lifts'[i].status = "open"
        /\ pc \in {"created", "sleeping", "weather", "safety", "slopes"} =>
              lifts' = lifts ]_vars

\* The first tick closed one lift and sent another to maintenance.
LiftsToggledOff ==
    /\ pc = "sleeping"
    /\ current_time = 1
    /\ lifts[1].status = "closed"
    /\ lifts[2].status = "maintenance"
    /\ lifts[3].status = "open"

----------------------------------------------------------------------------
(* Visibility.                                                             *)

\* The penalties the claim subtracts for a weather: 2d when snow_intensity > 2,
\* 1.5d when wind_speed > 40, d the configured visibility drift magnitude.
VisibilityPenalty(w) ==
    (IF w.snow_intensity > 20 THEN 2 * config.weather.visibility_drift ELSE 0)
      + (IF w.wind_speed > 40 THEN (15 * config.weather.visibility_drift) \div 10 ELSE 0)

\* C26: the visibility change of a tick, before clamping, is a drift in [-d, d]
\* minus 2d if this tick's snow_intensity > 2 and minus 1.5d if this tick's
\* wind_speed > 40, both when both hold; the result is clamped to [50, 10000].
VisibilityPenalized ==
    [][ pc = "weather" =>
          /\ weather'.visibility >=
               Max(50, Min(10000, weather.visibility - config.weather.visibility_drift
                                    - VisibilityPenalty(weather')))
          /\ weather'.visibility <=
               Max(50, Min(10000, weather.visibility + config.weather.visibility_drift
                                    - VisibilityPenalty(weather'))) ]_vars

\* The first tick took the snowfall to 3.0 and the wind to 45: both penalties
\* were subtracted and the visibility fell from at least 5000 to the floor.
BothPenaltiesApplied ==
    /\ pc = "lifts"
    /\ current_time = 1
    /\ weather.snow_intensity = 30
    /\ weather.wind_speed = 45
    /\ weather.visibility = 50

----------------------------------------------------------------------------
(* The history over one update().                                          *)

\* C27: in one update() the incident history is either unchanged or is the
\* previous history with exactly one new incident appended at the end, after
\* dropping the oldest entry if it held 20. Only the safety step changes it; the
\* new incident carries this tick's time and every retained incident an earlier
\* one, so at most one incident is added per tick; retained incidents keep
\* their fields and their relative order.
HistoryAppendOnly ==
    [][ incident_history' # incident_history =>
          LET kept == IF Len(incident_history) = 20
                      THEN Tail(incident_history) ELSE incident_history
          IN  /\ pc = "safety"
              /\ Len(incident_history') = Len(kept) + 1
              /\ \A i \in 1..Len(kept) :
                    /\ incident_history'[i] = kept[i]
                    /\ kept[i].timestamp < current_time
              /\ incident_history'[Len(kept) + 1].timestamp = current_time ]_vars

\* The first tick added an incident, the second left the history unchanged, the
\* third appended one after it.
QuietTickThenAppend ==
    /\ pc = "sleeping"
    /\ current_time = 3
    /\ Len(incident_history) = 2
    /\ incident_history[1].timestamp = 1
    /\ incident_history[2].timestamp = 3

----------------------------------------------------------------------------
(* The avalanche risk walk.                                                *)

\* C28: the avalanche risk change of a tick, before clamping, is a drift in
\* [-d, d] (d the configured risk drift magnitude) plus 0.5d if this tick's
\* wind_speed > 50 and plus another 0.5d if this tick's snow_intensity > 3, the
\* two adding up when both hold; the result is clamped to [0, 1].
RiskIncrementsAdd ==
    [][ pc = "safety" =>
          LET d == config.safety.risk_drift
              windy == IF weather.wind_speed > 50 THEN d \div 2 ELSE 0
              snowy == IF weather.snow_intensity > 30 THEN d \div 2 ELSE 0
              low == safety.avalanche_risk_index - d + windy + snowy
              high == safety.avalanche_risk_index + d + windy + snowy
          IN  /\ safety'.avalanche_risk_index \in 0..100
              /\ safety'.avalanche_risk_index >= Max(0, Min(100, low))
              /\ safety'.avalanche_risk_index <= Max(0, Min(100, high)) ]_vars

\* The second tick, with the wind at 65 and the snowfall at 4.0, took the risk
\* from 0.6 to 1.0: the largest drift plus both increments.
BothIncrementsApplied ==
    /\ pc = "slopes"
    /\ current_time = 2
    /\ weather.wind_speed = 65
    /\ weather.snow_intensity = 40
    /\ safety.timestamp = 2
    /\ safety.avalanche_risk_index = 100

----------------------------------------------------------------------------
(* Grooming: the groom and ungroom draws of a groomed green slope, an      *)
(* ungroomed blue slope and a red slope vary.                              *)

GroomDraws ==
    [ Frozen EXCEPT !.max_time = MaxOrderTime, !.slopes = {1, 4, 6},
                    !.groom = BOOLEAN, !.ungroom = BOOLEAN ]

GroomNext == Engine(GroomDraws)

GroomSpec == Init /\ [][GroomNext]_vars

\* C29: per slope and per tick the groom attempt comes first and the ungroom
\* attempt is made only if the groom branch was not taken. A green or blue slope
\* whose groom draw succeeds is groomed after the tick and no ungroom draw is
\* made for it; a slope is ungroomed only if it was groomed before the tick, its
\* groom branch did not fire and its ungroom draw succeeded; a slope becomes
\* groomed only by a successful groom draw; no other step changes groomed.
GroomBeforeUngroom ==
    [][ /\ pc = "slopes" =>
              \A i \in DOMAIN slopes :
                 /\ drawn'.groom[i] = "success" =>
                       /\ slopes[i].difficulty \in {"green", "blue"}
                       /\ slopes'[i].groomed
                       /\ drawn'.ungroom[i] = "not drawn"
                 /\ (slopes[i].groomed /\ ~slopes'[i].groomed) =>
                       /\ drawn'.groom[i] # "success"
                       /\ drawn'.ungroom[i] = "success"
                 /\ (~slopes[i].groomed /\ slopes'[i].groomed) =>
                       drawn'.groom[i] = "success"
                 /\ drawn'.ungroom[i] # "not drawn" =>
                       (slopes[i].groomed /\ drawn'.groom[i] # "success")
        /\ pc \in {"created", "sleeping", "weather", "lifts", "safety"} =>
              \A i \in DOMAIN slopes : slopes'[i].groomed = slopes[i].groomed ]_vars

\* In the third tick the green slope, ungroomed by an earlier tick, was groomed
\* again by a successful groom draw with no ungroom draw made, the blue slope,
\* groomed by an earlier tick, was ungroomed after a failed groom draw, and the
\* red slope drew neither.
GroomedAndUngroomed ==
    /\ pc = "sleeping"
    /\ current_time = 3
    /\ drawn.groom[1] = "success"
    /\ drawn.ungroom[1] = "not drawn"
    /\ slopes[1].groomed
    /\ drawn.groom[4] = "failure"
    /\ drawn.ungroom[4] = "success"
    /\ ~slopes[4].groomed
    /\ drawn.groom[6] = "not drawn"
    /\ drawn.ungroom[6] = "not drawn"
    /\ ~slopes[6].groomed

----------------------------------------------------------------------------
(* Snow depth: the depth of the shallowest slope walks, under snowfall     *)
(* that comes and goes.                                                    *)

DepthDraws ==
    [ Frozen EXCEPT !.init_snow = {0, 20}, !.snow = {0, 1},
                    !.slopes = {1}, !.init_variance = {-100, 0, 100},
                    !.depth = {-1, 0, 1} ]

DepthNext == Engine(DepthDraws)

DepthSpec == Init /\ [][DepthNext]_vars

\* C30: every slope's snow_depth_cm is greater than or equal to 0 in every
\* state reachable by construction and any number of update() calls: the depth
\* after a tick is max(0, previous depth + drift + 0.1 * snow_intensity when
\* this tick's snow_intensity > 1), rounded to 1 decimal, the drift in [-d, d]
\* for the configured depth drift magnitude d.
DepthNeverNegative ==
    /\ [](Constructed => \A i \in DOMAIN slopes : slopes[i].snow_depth_cm >= 0)
    /\ [][ pc = "slopes" =>
             \A i \in DOMAIN slopes :
                LET gain == IF weather.snow_intensity > 10
                            THEN weather.snow_intensity ELSE 0
                    low == slopes[i].snow_depth_cm * 10 - config.slopes.depth_drift + gain
                    high == slopes[i].snow_depth_cm * 10 + config.slopes.depth_drift + gain
                IN  /\ slopes'[i].snow_depth_cm >= RoundDiv(Max(0, low), 10)
                    /\ slopes'[i].snow_depth_cm <= RoundDiv(Max(0, high), 10) ]_vars

\* The walk took the first slope's depth down to the floor, and the unvaried
\* slopes have gained depth from the snowfall.
DepthAtFloor ==
    /\ pc = "sleeping"
    /\ slopes[1].snow_depth_cm = 0
    /\ weather.snow_intensity > 10
    /\ slopes[2].snow_depth_cm > 900

----------------------------------------------------------------------------
(* Step sizes: temperature, wind, snowfall and one queue walk from the     *)
(* ends of their initial ranges.                                           *)

StepDraws ==
    [ Frozen EXCEPT !.max_time = MaxOrderTime,
                    !.init_temp = {-10, 0}, !.temp = {-1, 0, 1},
                    !.init_wind = {5, 25}, !.wind = {-1, 0, 1},
                    !.init_snow = {0, 20}, !.snow = {-1, 0, 1},
                    !.lifts = {1}, !.init_queue = {10, 80}, !.queue = {-1, 0, 1} ]

StepNext == Engine(StepDraws)

StepSpec == Init /\ [][StepNext]_vars

\* |a - b|
Distance(a, b) == IF a >= b THEN a - b ELSE b - a

\* C31: the weather and queue walks are bounded per tick. In one update()
\* temperature, wind_speed and snow_intensity each change by at most their
\* configured drift magnitude in absolute value, and each lift's queue_length
\* by at most the configured queue drift; clamping only shrinks a step; no other
\* step of the tick changes these values.
WalksBoundedPerTick ==
    [][ /\ pc = "weather" =>
              /\ Distance(weather'.temperature, weather.temperature)
                    <= config.weather.temperature_drift
              /\ Distance(weather'.wind_speed, weather.wind_speed)
                    <= config.weather.wind_speed_drift
              /\ Distance(weather'.snow_intensity, weather.snow_intensity)
                    <= config.weather.snow_intensity_drift
        /\ pc = "lifts" =>
              \A i \in DOMAIN lifts :
                 Distance(lifts'[i].queue_length, lifts[i].queue_length)
                    <= config.lifts.queue_drift
        /\ pc \in {"created", "sleeping", "lifts", "safety", "slopes"} =>
              weather' = weather
        /\ pc \in {"created", "sleeping", "weather", "safety", "slopes"} =>
              \A i \in DOMAIN lifts : lifts'[i].queue_length = lifts[i].queue_length ]_vars

\* The first tick took the temperature a whole step down to -15, and clamping
\* cut the steps of the wind (from 5 to 0) and of the first queue (to 0) short.
StepsCutByClamping ==
    /\ pc = "safety"
    /\ current_time = 1
    /\ weather.temperature = -15
    /\ weather.wind_speed = 0
    /\ weather.snow_intensity = 30
    /\ lifts[1].queue_length = 0

----------------------------------------------------------------------------
(* Green and blue slopes.                                                  *)

\* C32: green and blue slopes are never closed. In every state reachable by
\* construction and any number of update() calls every slope of difficulty
\* green or blue has is_open = true, whatever the weather and the avalanche
\* risk.
EasySlopesStayOpen ==
    Constructed =>
        \A i \in DOMAIN slopes :
            slopes[i].difficulty \in {"green", "blue"} => slopes[i].is_open

\* A tick ended with the wind above 60 and the risk above 0.8: the red and the
\* black slopes are closed, the green and blue ones open.
OnlyHardSlopesClosed ==
    /\ pc = "sleeping"
    /\ weather.wind_speed > 60
    /\ safety.avalanche_risk_index > 80
    /\ \A i \in DOMAIN slopes :
          slopes[i].is_open <=> slopes[i].difficulty \in {"green", "blue"}

----------------------------------------------------------------------------
(* Reasons for a closure.                                                  *)

\* C33: a slope is closed by update() only for a stated reason. A slope open
\* before a tick and closed after it is black with this tick's
\* avalanche_risk_index > 0.8, or is red or black with this tick's
\* wind_speed > 60; a red slope is never closed by avalanche risk alone.
ClosedOnlyForAReason ==
    [][ pc = "slopes" =>
          \A i \in DOMAIN slopes :
             (slopes[i].is_open /\ ~slopes'[i].is_open) =>
                /\ \/ slopes[i].difficulty = "black" /\ safety.avalanche_risk_index > 80
                   \/ slopes[i].difficulty \in {"red", "black"} /\ weather.wind_speed > 60
                /\ slopes[i].difficulty = "red" => weather.wind_speed > 60 ]_vars

\* The third tick took the risk above 0.8 for the first time, in a wind that
\* never exceeded 60: it closed the black slopes and left the red slope open.
ClosedByRiskAlone ==
    /\ pc = "sleeping"
    /\ current_time = 3
    /\ weather.wind_speed = 25
    /\ safety.avalanche_risk_index = 100
    /\ ~slopes[7].is_open
    /\ ~slopes[8].is_open
    /\ slopes[6].is_open

----------------------------------------------------------------------------
(* Red and black slopes and grooming.                                      *)

\* C34: red and black slopes are never groomed. In every state reachable by
\* construction and any number of update() calls every slope of difficulty red
\* or black has groomed = false.
HardSlopesNeverGroomed ==
    Constructed =>
        \A i \in DOMAIN slopes :
            slopes[i].difficulty \in {"red", "black"} => ~slopes[i].groomed

\* The first tick groomed the blue slope and ungroomed the green one; the red
\* slope, for which no groom draw is made, is ungroomed as before.
EasySlopesRegroomed ==
    /\ pc = "sleeping"
    /\ current_time = 1
    /\ ~slopes[1].groomed
    /\ slopes[4].groomed
    /\ drawn.groom[6] = "not drawn"
    /\ ~slopes[6].groomed

----------------------------------------------------------------------------
(* Visibility in a penalised tick.                                         *)

\* Drift magnitudes a configuration can give, the configured one among them
\* (even, so that d * 1.5 is whole).
Magnitudes == {0, 2, 200, config.weather.visibility_drift}

\* Line 161-162 for the weather w before the visibility lines, the magnitude d,
\* the draw drift and this tick's snow_intensity and wind_speed.
visibility_after(w, d, drift, snow_intensity, wind_speed) ==
    Max(50, Min(10000, w.visibility + vis_delta_of(d, drift, snow_intensity, wind_speed)))

----------------------------------------------------------------------------
(* Shutdown: lifespan cancels the update task.                             *)

\* Mutant of except_Exception_catches: the except branch catches every
\* exception, the cancellation included.
except_Exception_catches_all(raised) == TRUE

\* `except Exception as e` of data_update_loop: it catches what derives from
\* Exception, the failures of a tick; asyncio.CancelledError derives from
\* BaseException and passes it.
except_Exception_catches(raised) == raised # "CancelledError"

\* Where the loop task is after update_task.cancel() raised CancelledError at
\* the await it was suspended in (at): the asyncio.sleep(interval) of the try
\* block is under the except branch, which would log and sleep 2 seconds if it
\* caught the error; the asyncio.sleep(2) of the except branch and a task that
\* has not started are under no handler.
cancel_delivered(at) ==
    IF at = "sleeping" /\ except_Exception_catches("CancelledError")
    THEN "backoff"
    ELSE "cancelled"

\* lifespan after the yield: update_task.cancel(), await update_task.
Shutdown ==
    /\ pc \in {"created", "sleeping", "backoff"}
    /\ pc' = cancel_delivered(pc)
    /\ UNCHANGED <<agent, generator, current_time, weather, lifts, slopes, safety,
                   incident_history, response, held, drawn, last_tick,
                   reports_list>>

ShutdownDraws ==
    [ Frozen EXCEPT !.max_time = MaxServiceTime, !.wind = {-1, 0, 1} ]

ShutdownNext == Engine(ShutdownDraws) \/ Fault \/ Shutdown

ShutdownSpec == Init /\ [][ShutdownNext]_vars

\* C36: shutdown stops the driving loop. The cancellation of the update task is
\* not caught by the loop's exception handler, so it ends the task wherever the
\* task was waiting, and once the task has ended no update() runs: the clock and
\* the entities stay as they are.
ShutdownStopsLoop ==
    [][ /\ Shutdown => pc' = "cancelled"
        /\ pc = "cancelled" =>
             /\ pc' = "cancelled"
             /\ UNCHANGED <<current_time, weather, lifts, slopes, safety,
                            incident_history>> ]_vars

\* The second tick failed at its first step and the task was cancelled during
\* the backoff sleep, with ticks left to run.
CancelledDuringBackoff ==
    /\ pc = "cancelled"
    /\ current_time = 2
    /\ weather.timestamp = 1
    /\ current_time < MaxServiceTime

----------------------------------------------------------------------------
(* The accessors before and after the construction of the engine.          *)

\* C37: as long as no engine has been constructed every read accessor answers
\* 503 "Generator not initialized" and never state; once startup has constructed
\* the engine it is never replaced, and every accessor answers from it, the
\* engine the driving loop updates: 200 with the engine's values as they are
\* now, or 404 for a lift it does not have.
NotInitializedUntilConstructed ==
    /\ [](generator = None =>
            \/ response = NoResponse
            \/ /\ response.status = 503
               /\ response.body = [ detail |-> "Generator not initialized" ])
    /\ [][ /\ generator # None => generator' = generator
           /\ Handlers /\ generator # None =>
                /\ response'.status \in {200, 404}
                /\ response'.status = 200 =>
                     response'.body
                       = Project(response'.kind, response'.arg, EngineState)
                /\ response'.status = 404 =>
                     ~has_lift(lifts, response'.arg) ]_vars

\* The lift accessor was called before startup and answered 503; startup has
\* constructed the engine since and the loop has updated it once.
AnsweredBeforeStartup ==
    /\ response.status = 503
    /\ response.kind = "lift"
    /\ response.at = "none"
    /\ generator # None
    /\ pc = "sleeping"
    /\ current_time = 1

----------------------------------------------------------------------------
(* The safety agent: SafetyService.is_slope_safe, which reads the weather, *)
(* the safety record and the slopes over HTTP.  Risk scores in hundredths. *)

\* JSON null in a payload.
null == "null"

\* What fetch_weather returns when the request fails.
default_weather ==
    [ temperature |-> 0, wind_speed |-> 0, snow_intensity |-> 0,
      visibility |-> 5000 ]

\* What fetch_safety returns when the request fails.
default_safety == [ avalanche_risk_index |-> 0, incident_reports |-> <<>> ]

\* A slope list no SlopeData serializes to: the difficulty of every entry is
\* null. The service URL is read from the environment, and what answers there
\* need not be the data generator.
unexpected_slopes(ss) == [ i \in DOMAIN ss |-> [ ss[i] EXCEPT !.difficulty = null ] ]

\* _fetch_weather: the JSON of GET /api/weather, or the default when the
\* request fails. Without a generator the handler answers 503 and
\* raise_for_status() raises, which is a failure.
fetch_weather ==
    {default_weather} \cup (IF generator # None THEN {weather} ELSE {})

\* _fetch_safety, likewise.
fetch_safety ==
    {default_safety} \cup (IF generator # None THEN {safety} ELSE {})

\* _fetch_slopes, likewise: the empty list when the request fails.
fetch_slopes ==
    {<<>>} \cup (IF generator # None
                 THEN {slopes, unexpected_slopes(slopes)} ELSE {})

\* _calculate_risk_score: the avalanche index plus the wind, visibility and
\* snowfall increments, clamped to [0, 1]; the factors name the rules applied.
calculate_risk_score(w, s) ==
    LET wind == IF w.wind_speed > 50 THEN 20
                ELSE IF w.wind_speed > 30 THEN 10 ELSE 0
        vis == IF w.visibility < 500 THEN 15
               ELSE IF w.visibility < 1000 THEN 5 ELSE 0
        snow == IF w.snow_intensity > 30 THEN 10 ELSE 0
        factors ==
            (IF w.wind_speed > 50 THEN <<"Extreme wind speed">>
             ELSE IF w.wind_speed > 30 THEN <<"High wind speed">> ELSE <<>>)
            \o (IF w.visibility < 500 THEN <<"Very low visibility">>
                ELSE IF w.visibility < 1000 THEN <<"Low visibility">> ELSE <<>>)
            \o (IF w.snow_intensity > 30 THEN <<"Heavy snowfall">> ELSE <<>>)
            \o (IF s.avalanche_risk_index > 0
                THEN <<"Avalanche risk index">> ELSE <<>>)
    IN  [ risk |-> Max(0, Min(100, s.avalanche_risk_index + wind + vis + snow)),
          factors |-> factors ]

\* difficulty_thresholds of is_slope_safe
difficulty_thresholds ==
    [ d \in {"black", "red", "blue", "green"} |->
        CASE d = "black" -> 50 [] d = "red" -> 60 [] d = "blue" -> 70
          [] d = "green" -> 80 ]

\* difficulty_thresholds.get(difficulty, 0.7)
threshold(difficulty) ==
    IF difficulty \in DOMAIN difficulty_thresholds
    THEN difficulty_thresholds[difficulty] ELSE 70

\* str.lower() on the labels a payload may carry.
lower(label) ==
    CASE label = "BLACK" \/ label = "Black" -> "black"
      [] label = "RED" \/ label = "Red"     -> "red"
      [] label = "BLUE" \/ label = "Blue"   -> "blue"
      [] label = "GREEN" \/ label = "Green" -> "green"
      [] OTHER -> label

\* Mutant of is_slope_safe: no `if not slope.get("is_open", False)` test.
is_slope_safe_ignores_closure(slope_id, w, s, ss) ==
    LET found == { i \in DOMAIN ss : ss[i].slope_id = slope_id }
    IN  IF found = {}
        THEN [ slope_id |-> slope_id, is_safe |-> FALSE, risk_score |-> 100,
               reasons |-> <<"Slope {slope_id} not found">> ]
        ELSE
          LET slope == ss[CHOOSE i \in found : \A j \in found : i <= j]
              score == calculate_risk_score(w, s)
              closed == IF ~slope.is_open
                        THEN <<"Slope is currently closed">> ELSE <<>>
          IN  IF slope.difficulty = null
              THEN [ slope_id |-> slope_id, is_safe |-> FALSE, risk_score |-> 100,
                     reasons |-> <<"Error: {e}">> ]
              ELSE
                LET too_high == score.risk > threshold(lower(slope.difficulty))
                    risk == IF too_high
                            THEN <<"Risk level too high for {difficulty} slope">>
                            ELSE <<>>
                    reasons == closed \o risk \o score.factors
                IN  [ slope_id |-> slope_id, slope_name |-> slope.name,
                      difficulty |-> slope.difficulty,
                      is_safe |-> ~too_high,
                      risk_score |-> score.risk,
                      reasons |-> IF reasons # <<>> THEN reasons
                                  ELSE <<"Slope is safe for skiing">> ]

\* is_slope_safe after its three fetches, for the weather w, the safety record s
\* and the slope list ss fetched: the first slope with the id; without one the
\* "not found" answer; .lower() of a null difficulty raises, and the except
\* branch answers; else is_safe is false for a closed slope and for a risk
\* above the threshold of the difficulty.
is_slope_safe(slope_id, w, s, ss) ==
    LET found == { i \in DOMAIN ss : ss[i].slope_id = slope_id }
    IN  IF found = {}
        THEN [ slope_id |-> slope_id, is_safe |-> FALSE, risk_score |-> 100,
               reasons |-> <<"Slope {slope_id} not found">> ]
        ELSE
          LET slope == ss[CHOOSE i \in found : \A j \in found : i <= j]
              score == calculate_risk_score(w, s)
              closed == IF ~slope.is_open
                        THEN <<"Slope is currently closed">> ELSE <<>>
          IN  IF slope.difficulty = null
              THEN [ slope_id |-> slope_id, is_safe |-> FALSE, risk_score |-> 100,
                     reasons |-> <<"Error: {e}">> ]
              ELSE
                LET too_high == score.risk > threshold(lower(slope.difficulty))
                    risk == IF too_high
                            THEN <<"Risk level too high for {difficulty} slope">>
                            ELSE <<>>
                    reasons == closed \o risk \o score.factors
                IN  [ slope_id |-> slope_id, slope_name |-> slope.name,
                      difficulty |-> slope.difficulty,
                      is_safe |-> slope.is_open /\ ~too_high,
                      risk_score |-> score.risk,
                      reasons |-> IF reasons # <<>> THEN reasons
                                  ELSE <<"Slope is safe for skiing">> ]

\* The slope ids asked about: a green slope, a black one, one not in the catalog.
RequestedSlopeIds == {"valley-run", "summit-chute", "no-such-slope"}

\* is_slope_safe up to its first await returning: the weather is fetched. The
\* data generator answers a request while its loop task is suspended.
is_slope_safe_weather ==
    /\ agent.pc \in {"idle", "done"}
    /\ Suspended
    /\ \E slope_id \in RequestedSlopeIds, w \in fetch_weather :
         agent' = [ NotCalled EXCEPT !.pc = "weather", !.slope_id = slope_id,
                                     !.weather = w ]
    /\ UNCHANGED <<generator, pc, current_time, weather, lifts, slopes, safety,
                   incident_history, reports_list, response, held, drawn,
                   last_tick>>

\* The second await returns: the safety record is fetched.
is_slope_safe_safety ==
    /\ agent.pc = "weather"
    /\ Suspended
    /\ \E s \in fetch_safety : agent' = [ agent EXCEPT !.pc = "safety", !.safety = s ]
    /\ UNCHANGED <<generator, pc, current_time, weather, lifts, slopes, safety,
                   incident_history, reports_list, response, held, drawn,
                   last_tick>>

\* The third await returns, the slopes are fetched, and the call runs to its
\* return.
is_slope_safe_slopes ==
    /\ agent.pc = "safety"
    /\ Suspended
    /\ \E ss \in fetch_slopes :
         agent' = [ NotCalled EXCEPT
                      !.pc = "done", !.slope_id = agent.slope_id, !.fetched = ss,
                      !.result = is_slope_safe(agent.slope_id, agent.weather,
                                               agent.safety, ss) ]
    /\ UNCHANGED <<generator, pc, current_time, weather, lifts, slopes, safety,
                   incident_history, reports_list, response, held, drawn,
                   last_tick>>

SafetyAgent ==
    \/ is_slope_safe_weather
    \/ is_slope_safe_safety
    \/ is_slope_safe_slopes

\* A rising wind closes the red and the black slopes at the second tick.
AgentDraws ==
    [ Frozen EXCEPT !.max_time = MaxOrderTime, !.init_wind = {25}, !.wind = {1},
                    !.init_risk = {40} ]

AgentNext == Engine(AgentDraws) \/ SafetyAgent

AgentSpec == Init /\ [][AgentNext]_vars

\* C38: is_slope_safe never answers is_safe = true for a slope that is closed
\* in, or absent from, the slope list it fetched, whatever the fetches of
\* weather, safety and slopes gave, failures included: without the slope in the
\* list, and after an error, the answer is is_safe = false with risk_score 1.0;
\* for a closed slope it is is_safe = false whatever the risk computed.
ClosedOrAbsentNeverSafe ==
    agent.pc = "done" =>
        LET r == agent.result
            ss == agent.fetched
            found == { i \in DOMAIN ss : ss[i].slope_id = agent.slope_id }
        IN  /\ r.is_safe => \E i \in found : ss[i].is_open
            /\ found = {} => ~r.is_safe /\ r.risk_score = 100
            /\ (\E i \in found : ss[i].difficulty = null) =>
                  ~r.is_safe /\ r.risk_score = 100
            /\ (\E i \in found : ~ss[i].is_open) => ~r.is_safe

\* The black slope was closed in the list fetched while the fetches of weather
\* and safety had failed: the risk computed is 0 and the answer is not safe.
ClosedSlopeAtNoRisk ==
    /\ agent.pc = "done"
    /\ agent.slope_id = "summit-chute"
    /\ Len(agent.fetched) = Len(slope_configs)
    /\ ~agent.fetched[7].is_open
    /\ agent.fetched[7].difficulty = "black"
    /\ agent.result.risk_score = 0
    /\ ~agent.result.is_safe
    /\ agent.result.reasons = <<"Slope is currently closed">>

====
